---- MODULE Spec2Model ----
(***************************************************************************)
(* Model of google-maps-mcp-server: the stdio transport and dispatcher     *)
(* (utils/stdio.ts), the server glue (server.ts) with a tool handler       *)
(* (tools), the retry policy (utils/retry.ts), the error mapping           *)
(* (utils/errors.ts), the upstream client (utils/google-maps-client.ts),   *)
(* the cache and its key helper (utils/cache.ts), the rate limiter         *)
(* (utils/rate-limiter.ts) and the validation helper                       *)
(* (utils/validation.ts).                                                  *)
(*                                                                         *)
(* Text is a sequence of one-character strings, one element per UTF-16     *)
(* code unit of the JavaScript string.  A JSON value is a record           *)
(*   [t |-> tag, s |-> text, k |-> keys, v |-> values]                     *)
(* where t is "undefined", "null", "bool", "number", "string", "array" or  *)
(* "object"; s is the literal of a bool or number and the content of a     *)
(* string; k and v are the keys and values of an object, v the elements of *)
(* an array.                                                               *)
(***************************************************************************)
EXTENDS Integers, Sequences, FiniteSets, TLC

(***************************************************************************)
(* Bounds of the model.                                                    *)
(***************************************************************************)
MaxFrames == 2       \* frames in an input stream
MaxIrregular == 1    \* frames of a stream that are not plain Requests
ChunkLen == 24       \* characters a 'data' event delivers, unless it delivers all
MaxCalls == 2        \* calls of the upstream client in a run
JitterSteps == 2     \* values of Math.random: 0, 1/JitterSteps, ...
MaxAttempts == 3     \* largest maxAttempts option given to withRetry
MaxKeyCalls == 2     \* calls of Cache.createKey in a run of the helper alone
MaxCapacity == 2     \* largest capacity of a token bucket
MaxChecks == 4       \* calls of RateLimiter.checkLimit in a run
MaxTime == 1000      \* last value of Date.now(), in milliseconds after the start
MaxOps == 3          \* Cache method calls and client calls in a run of the cache
MaxToolCalls == 2    \* call_tool invocations in a run
MaxBucketOps == 3    \* method calls on a TokenBucket in a run of the bucket alone
MaxBurst == 3        \* call_tool Requests dispatched to handlers in flight together

(***************************************************************************)
(* Text helpers.                                                           *)
(***************************************************************************)
CR == "\r"
LF == "\n"
Digits == <<"0", "1", "2", "3", "4", "5", "6", "7", "8", "9">>

IsDigit(c) == \E i \in 1..10 : Digits[i] = c

DigitVal(c) == (CHOOSE i \in 1..10 : Digits[i] = c) - 1

\* s.slice(from, to) of JavaScript, 0-based, to exclusive, clamped.
Slice(s, from, to) ==
    LET f == IF from > Len(s) THEN Len(s) ELSE from
        e == IF to > Len(s) THEN Len(s) ELSE to
    IN  IF e <= f THEN <<>> ELSE SubSeq(s, f + 1, e)

SliceFrom(s, from) == Slice(s, from, Len(s))

StartsWithAt(s, pos, lit) ==
    /\ pos + Len(lit) - 1 <= Len(s)
    /\ \A i \in 1..Len(lit) : s[pos + i - 1] = lit[i]

RECURSIVE Concat(_)
Concat(ss) == IF ss = <<>> THEN <<>> ELSE Head(ss) \o Concat(Tail(ss))

\* parseInt of a non-empty run of decimal digits.
RECURSIVE parseInt(_)
parseInt(ds) ==
    IF ds = <<>> THEN 0
    ELSE parseInt(SubSeq(ds, 1, Len(ds) - 1)) * 10 + DigitVal(ds[Len(ds)])

\* Template-literal formatting of a non-negative integer.
RECURSIVE NumberToText(_)
NumberToText(n) ==
    IF n < 10 THEN <<Digits[n + 1]>>
    ELSE NumberToText(n \div 10) \o <<Digits[(n % 10) + 1]>>

\* Characters of the model's alphabet that take two bytes in UTF-8.
TwoByteChars == {"é"}

\* Buffer.byteLength(text, 'utf8')
byteLength(text) ==
    Len(text) + Cardinality({i \in 1..Len(text) : text[i] \in TwoByteChars})

(***************************************************************************)
(* JSON values.                                                            *)
(***************************************************************************)
Undefined == [t |-> "undefined", s |-> <<>>, k |-> <<>>, v |-> <<>>]
Null == [t |-> "null", s |-> <<>>, k |-> <<>>, v |-> <<>>]
Bool(b) == [t |-> "bool", s |-> IF b THEN <<"t", "r", "u", "e">>
                                     ELSE <<"f", "a", "l", "s", "e">>,
            k |-> <<>>, v |-> <<>>]
Num(n) == [t |-> "number", s |-> NumberToText(n), k |-> <<>>, v |-> <<>>]
Str(cs) == [t |-> "string", s |-> cs, k |-> <<>>, v |-> <<>>]
Arr(vs) == [t |-> "array", s |-> <<>>, k |-> <<>>, v |-> vs]
Obj(ks, vs) == [t |-> "object", s |-> <<>>, k |-> ks, v |-> vs]

\* Property names used by the protocol.
K_jsonrpc == <<"j", "s", "o", "n", "r", "p", "c">>
K_id == <<"i", "d">>
K_method == <<"m", "e", "t", "h", "o", "d">>
K_params == <<"p", "a", "r", "a", "m", "s">>
K_result == <<"r", "e", "s", "u", "l", "t">>
K_error == <<"e", "r", "r", "o", "r">>
K_code == <<"c", "o", "d", "e">>
K_message == <<"m", "e", "s", "s", "a", "g", "e">>
K_data == <<"d", "a", "t", "a">>
K_context == <<"c", "o", "n", "t", "e", "x", "t">>
K_originalMessage == <<"o", "r", "i", "g", "i", "n", "a", "l",
                       "M", "e", "s", "s", "a", "g", "e">>
V_2_0 == Str(<<"2", ".", "0">>)

\* 'key' in value, for an object or an array value (own string keys only).
HasKey(val, key) ==
    /\ val.t = "object"
    /\ \E i \in 1..Len(val.k) : val.k[i] = key

\* value.key: the property, or undefined.
Get(val, key) ==
    IF HasKey(val, key)
    THEN val.v[CHOOSE i \in 1..Len(val.k) : val.k[i] = key]
    ELSE Undefined

\* obj[key] = x, keeping the insertion order of the keys.
SetKey(obj, key, x) ==
    IF HasKey(obj, key)
    THEN LET i == CHOOSE j \in 1..Len(obj.k) : obj.k[j] = key
         IN  [obj EXCEPT !.v[i] = x]
    ELSE [obj EXCEPT !.k = Append(obj.k, key), !.v = Append(obj.v, x)]

\* Truthiness of a value, as the || operator sees it.
Truthy(val) ==
    CASE val.t = "undefined" -> FALSE
      [] val.t = "null" -> FALSE
      [] val.t = "bool" -> val.s = <<"t", "r", "u", "e">>
      [] val.t = "number" -> val.s # <<"0">>
      [] val.t = "string" -> val.s # <<>>
      [] OTHER -> TRUE

(***************************************************************************)
(* JSON.stringify(value): undefined-valued properties of an object are     *)
(* omitted, undefined elements of an array become null.                    *)
(***************************************************************************)
\* The characters with a two-character escape sequence, and its second character.
Escapes == <<"\"", "\\", "\n", "\r", "\t">>
EscapeLetters == <<"\"", "\\", "n", "r", "t">>

EscapeChar(c) ==
    IF \E i \in 1..5 : Escapes[i] = c
    THEN <<"\\", EscapeLetters[CHOOSE i \in 1..5 : Escapes[i] = c]>>
    ELSE <<c>>

RECURSIVE EscapeText(_)
EscapeText(cs) ==
    IF cs = <<>> THEN <<>>
    ELSE IF Len(cs) = 1 THEN EscapeChar(cs[1])
    ELSE LET h == Len(cs) \div 2
         IN  EscapeText(SubSeq(cs, 1, h)) \o EscapeText(SubSeq(cs, h + 1, Len(cs)))

Quote(cs) == <<"\"">> \o EscapeText(cs) \o <<"\"">>

RECURSIVE stringify(_)
RECURSIVE StringifyMembers(_, _, _)
RECURSIVE StringifyElements(_, _)

StringifyMembers(val, i, first) ==
    IF i > Len(val.k) THEN <<>>
    ELSE IF val.v[i].t = "undefined" THEN StringifyMembers(val, i + 1, first)
    ELSE (IF first THEN <<>> ELSE <<",">>)
         \o Quote(val.k[i]) \o <<":">> \o stringify(val.v[i])
         \o StringifyMembers(val, i + 1, FALSE)

StringifyElements(val, i) ==
    IF i > Len(val.v) THEN <<>>
    ELSE (IF i = 1 THEN <<>> ELSE <<",">>)
         \o (IF val.v[i].t = "undefined" THEN <<"n", "u", "l", "l">>
             ELSE stringify(val.v[i]))
         \o StringifyElements(val, i + 1)

stringify(val) ==
    CASE val.t = "null" -> <<"n", "u", "l", "l">>
      [] val.t = "bool" -> val.s
      [] val.t = "number" -> val.s
      [] val.t = "string" -> Quote(val.s)
      [] val.t = "array" -> <<"[">> \o StringifyElements(val, 1) \o <<"]">>
      [] val.t = "object" -> <<"{">> \o StringifyMembers(val, 1, TRUE) \o <<"}">>
      [] OTHER -> <<>>

(***************************************************************************)
(* JSON.parse(text) for the JSON subset of the model: objects, arrays,     *)
(* strings with the escapes of Escapes, integers, true, false, null, and   *)
(* white space between tokens.  The result is [ok |-> TRUE, val |-> value] *)
(* or [ok |-> FALSE] for a SyntaxError.                                    *)
(***************************************************************************)
IsWs(c) == c \in {" ", "\t", "\n", "\r"}

RECURSIVE SkipWs(_, _)
SkipWs(txt, pos) ==
    IF pos <= Len(txt) /\ IsWs(txt[pos]) THEN SkipWs(txt, pos + 1) ELSE pos

RECURSIVE DigitRunEnd(_, _)
\* Position after the run of digits that starts at pos.
DigitRunEnd(txt, pos) ==
    IF pos <= Len(txt) /\ IsDigit(txt[pos]) THEN DigitRunEnd(txt, pos + 1) ELSE pos

ParseFail == [ok |-> FALSE, pos |-> 0, val |-> Undefined]
ParseOk(p, x) == [ok |-> TRUE, pos |-> p, val |-> x]

RECURSIVE StringBody(_, _, _)
\* The content of a string from pos on, up to its closing quote: the run
\* of plain characters up to the next quote, backslash or control
\* character is taken at once.
StringBody(txt, pos, acc) ==
    LET stops == {q \in pos..Len(txt) : txt[q] \in {"\"", "\\", "\n", "\r", "\t"}}
        stop == IF stops = {} THEN Len(txt) + 1
                ELSE CHOOSE q \in stops : \A r \in stops : q <= r
        run == acc \o SubSeq(txt, pos, stop - 1)
    IN  IF stop > Len(txt) THEN ParseFail
        ELSE IF txt[stop] = "\"" THEN ParseOk(stop + 1, Str(run))
        ELSE IF txt[stop] \in {"\n", "\r", "\t"} THEN ParseFail
        ELSE IF stop + 1 <= Len(txt) /\ \E i \in 1..5 : EscapeLetters[i] = txt[stop + 1]
        THEN StringBody(txt, stop + 2,
                        Append(run, Escapes[CHOOSE i \in 1..5 : EscapeLetters[i] = txt[stop + 1]]))
        ELSE ParseFail

ParseString(txt, pos) ==
    IF pos > Len(txt) \/ txt[pos] # "\"" THEN ParseFail
    ELSE StringBody(txt, pos + 1, <<>>)

ParseNumber(txt, pos) ==
    LET neg == pos <= Len(txt) /\ txt[pos] = "-"
        st == IF neg THEN pos + 1 ELSE pos
        e == DigitRunEnd(txt, st)
        ds == SubSeq(txt, st, e - 1)
    IN  IF e = st THEN ParseFail
        ELSE IF Len(ds) > 1 /\ ds[1] = "0" THEN ParseFail
        ELSE IF e <= Len(txt) /\ txt[e] \in {".", "e", "E"} THEN ParseFail
        ELSE ParseOk(e, [t |-> "number",
                         s |-> IF neg /\ ds # <<"0">> THEN <<"-">> \o ds ELSE ds,
                         k |-> <<>>, v |-> <<>>])

RECURSIVE ParseValue(_, _)
RECURSIVE ParseMembers(_, _, _)
RECURSIVE ParseElements(_, _, _)

\* Members of an object after the opening brace or after a comma.
ParseMembers(txt, pos, acc) ==
    LET kr == ParseString(txt, SkipWs(txt, pos))
    IN  IF ~kr.ok THEN ParseFail
        ELSE LET c == SkipWs(txt, kr.pos)
             IN  IF c > Len(txt) \/ txt[c] # ":" THEN ParseFail
                 ELSE LET vr == ParseValue(txt, c + 1)
                      IN  IF ~vr.ok THEN ParseFail
                          ELSE LET n == SkipWs(txt, vr.pos)
                                   acc2 == SetKey(acc, kr.val.s, vr.val)
                               IN  IF n > Len(txt) THEN ParseFail
                                   ELSE IF txt[n] = "}" THEN ParseOk(n + 1, acc2)
                                   ELSE IF txt[n] = "," THEN ParseMembers(txt, n + 1, acc2)
                                   ELSE ParseFail

\* Elements of an array after the opening bracket or after a comma.
ParseElements(txt, pos, acc) ==
    LET vr == ParseValue(txt, pos)
    IN  IF ~vr.ok THEN ParseFail
        ELSE LET n == SkipWs(txt, vr.pos)
                 acc2 == [acc EXCEPT !.v = Append(acc.v, vr.val)]
             IN  IF n > Len(txt) THEN ParseFail
                 ELSE IF txt[n] = "]" THEN ParseOk(n + 1, acc2)
                 ELSE IF txt[n] = "," THEN ParseElements(txt, n + 1, acc2)
                 ELSE ParseFail

ParseValue(txt, pos0) ==
    LET pos == SkipWs(txt, pos0)
    IN  IF pos > Len(txt) THEN ParseFail
        ELSE IF txt[pos] = "{" THEN
            LET n == SkipWs(txt, pos + 1)
            IN  IF n <= Len(txt) /\ txt[n] = "}" THEN ParseOk(n + 1, Obj(<<>>, <<>>))
                ELSE ParseMembers(txt, pos + 1, Obj(<<>>, <<>>))
        ELSE IF txt[pos] = "[" THEN
            LET n == SkipWs(txt, pos + 1)
            IN  IF n <= Len(txt) /\ txt[n] = "]" THEN ParseOk(n + 1, Arr(<<>>))
                ELSE ParseElements(txt, pos + 1, Arr(<<>>))
        ELSE IF txt[pos] = "\"" THEN ParseString(txt, pos)
        ELSE IF StartsWithAt(txt, pos, <<"n", "u", "l", "l">>) THEN ParseOk(pos + 4, Null)
        ELSE IF StartsWithAt(txt, pos, <<"t", "r", "u", "e">>) THEN ParseOk(pos + 4, Bool(TRUE))
        ELSE IF StartsWithAt(txt, pos, <<"f", "a", "l", "s", "e">>) THEN ParseOk(pos + 5, Bool(FALSE))
        ELSE ParseNumber(txt, pos)

JSONparse(txt) ==
    LET r == ParseValue(txt, 1)
    IN  IF r.ok /\ SkipWs(txt, r.pos) = Len(txt) + 1
        THEN [ok |-> TRUE, val |-> r.val]
        ELSE [ok |-> FALSE, val |-> Undefined]

(***************************************************************************)
(* State.                                                                  *)
(***************************************************************************)
VARIABLES
    stream,        \* the characters the client writes to the server's stdin
    pos,           \* how many of them the 'data' events have delivered so far
    buffer,        \* STDIOHandler.buffer
    log,           \* every parse failure and every handleMessage call, in order
    pending,       \* indices in log of the Requests awaiting their handler
    stdout,        \* the process.stdout.write calls, in order
    exitCode,      \* Running, or the code process.exit was called with
    options,       \* the RetryOptions of the withRetry call
    wrapped,       \* whether the operation is a closure of GoogleMapsClient
    params,        \* the params of the GoogleMapsClient call
    rpc,           \* where the call is: idle, calling, sleeping, returned, thrown
    attempt,       \* the loop counter of withRetry
    upstream,      \* what the upstream HTTP call did at each attempt of this call
    delays,        \* the arguments of sleep during this call
    settled,       \* the value returned or the error thrown by the call
    callNo,        \* the number of calls started
    cache,         \* the entries of the Cache: key -> [value, start]
    now,           \* Date.now(), in milliseconds
    enabled,       \* Cache.enabled
    ttlMs,         \* the ttl the Cache gives its LRUCache
    reads,         \* the results of the direct calls of Cache methods, in order
    capacity,      \* RateLimiter.defaultCapacity
    refillRate,    \* RateLimiter.defaultRefillRate, tokens per second
    buckets,       \* RateLimiter.buckets: key -> [tokens, lastRefill]
    checks,        \* the checkLimit calls and how they ended, in order
    steps,         \* the stages the call_tool invocations went through, in order
    keyed          \* the createKey calls made by a caller of the helper alone

tvars == <<stream, pos, buffer, log, pending, stdout, exitCode>>
cvars == <<options, wrapped, params, rpc, attempt, upstream, delays, settled, callNo, cache>>
kvars == <<enabled, ttlMs, reads>>
lvars == <<capacity, refillRate, buckets, checks>>
svars == <<now, kvars, lvars, steps, keyed>>
vars == <<tvars, cvars, svars>>

Running == -1

(***************************************************************************)
(* The framer: STDIOHandler.processBuffer.                                 *)
(***************************************************************************)
ContentLengthPrefix ==
    <<"C", "o", "n", "t", "e", "n", "t", "-", "L", "e", "n", "g", "t", "h", ":", " ">>

\* buffer.match(/^Content-Length: (\d+)\r?\n\r?\n/): whether the buffer
\* starts with a header, the digits captured and the length of the match.
NoMatch == [matched |-> FALSE, digits |-> <<>>, length |-> 0]

contentLengthMatch(buf) ==
    IF ~StartsWithAt(buf, 1, ContentLengthPrefix) THEN NoMatch
    ELSE LET d0 == Len(ContentLengthPrefix) + 1
             d1 == DigitRunEnd(buf, d0)
             a == IF d1 <= Len(buf) /\ buf[d1] = CR THEN d1 + 1 ELSE d1
             b == a + 1
             c == IF b <= Len(buf) /\ buf[b] = CR THEN b + 1 ELSE b
         IN  IF d1 = d0 THEN NoMatch
             ELSE IF a > Len(buf) \/ buf[a] # LF THEN NoMatch
             ELSE IF c > Len(buf) \/ buf[c] # LF THEN NoMatch
             ELSE [matched |-> TRUE, digits |-> SubSeq(buf, d0, d1 - 1), length |-> c]

ParseErrorEvent(messageJson) ==
    [kind |-> "parseError", message |-> Undefined, messageJson |-> messageJson]
MessageEvent(message, messageJson) ==
    [kind |-> "message", message |-> message, messageJson |-> messageJson]

\* The while loop of processBuffer: the buffer it leaves and, in order, the
\* outcome of JSON.parse for every frame it extracts.
RECURSIVE processBuffer(_)
processBuffer(buf) ==
    LET m == contentLengthMatch(buf)
        contentLength == parseInt(m.digits)
        headerLength == m.length
    IN  IF ~m.matched THEN [buffer |-> buf, events |-> <<>>]
        ELSE IF Len(buf) < headerLength + contentLength
        THEN [buffer |-> buf, events |-> <<>>]
        ELSE LET messageJson == Slice(buf, headerLength, headerLength + contentLength)
                 rest == processBuffer(SliceFrom(buf, headerLength + contentLength))
                 parsed == JSONparse(messageJson)
                 event == IF parsed.ok THEN MessageEvent(parsed.val, messageJson)
                          ELSE ParseErrorEvent(messageJson)
             IN  [buffer |-> rest.buffer, events |-> <<event>> \o rest.events]

(***************************************************************************)
(* Outgoing frames: sendMessage, sendResponse, sendError.                  *)
(***************************************************************************)
IntVal(n) ==
    [t |-> "number",
     s |-> IF n < 0 THEN <<"-">> \o NumberToText(0 - n) ELSE NumberToText(n),
     k |-> <<>>, v |-> <<>>]

\* The string sendMessage hands to process.stdout.write.
sendMessage(message) ==
    LET messageJson == stringify(message)
        contentLength == byteLength(messageJson)
    IN  ContentLengthPrefix \o NumberToText(contentLength)
        \o <<CR, LF, CR, LF>> \o messageJson

sendResponse(id, result) ==
    sendMessage(Obj(<<K_jsonrpc, K_id, K_result>>, <<V_2_0, id, result>>))

sendError(id, code, message, data) ==
    sendMessage(Obj(<<K_jsonrpc, K_id, K_error>>,
                    <<V_2_0,
                      IF Truthy(id) THEN id ELSE IntVal(0),
                      Obj(<<K_code, K_message, K_data>>,
                          <<IntVal(code), Str(message), data>>)>>))

ParseErrorText == <<"P", "a", "r", "s", "e", " ", "e", "r", "r", "o", "r">>
MethodNotFoundText ==
    <<"M", "e", "t", "h", "o", "d", " ", "n", "o", "t", " ", "f", "o", "u", "n", "d">>
InternalErrorText ==
    <<"I", "n", "t", "e", "r", "n", "a", "l", " ", "e", "r", "r", "o", "r">>

(***************************************************************************)
(* The dispatcher: STDIOHandler.handleMessage.                             *)
(***************************************************************************)
\* Methods registered with onRequest and onNotification.  The notification
\* handler of the server returns; N_throws names a handler that throws.
M_call_tool == <<"c", "a", "l", "l", "_", "t", "o", "o", "l">>
M_initialized == <<"n", "o", "t", "i", "f", "i", "c", "a", "t", "i", "o", "n", "s", "/",
                   "i", "n", "i", "t", "i", "a", "l", "i", "z", "e", "d">>
N_throws == <<"t", "h", "r", "o", "w", "s">>
messageHandlers == {M_call_tool}
notificationHandlers == {M_initialized, N_throws}

\* Map.get(message.method) finds a handler.
HasHandler(handlers, message) ==
    /\ Get(message, K_method).t = "string"
    /\ Get(message, K_method).s \in handlers

\* The 'in' operator throws a TypeError when its right operand is not an object.
InThrows(message) == message.t \notin {"object", "array"}

Write(st, by, output) ==
    [st EXCEPT !.stdout = Append(st.stdout, [by |-> by, output |-> output])]

\* handleMessage without the return after the method-not-found error.
handleMessage_NoReturn(st, message) ==
    LET i == Len(st.log) + 1
        st1 == [st EXCEPT !.log = Append(st.log, MessageEvent(message, <<>>))]
    IN  IF InThrows(message) THEN [st1 EXCEPT !.rejected = TRUE]
        ELSE IF ~HasKey(message, K_id) THEN
            IF HasHandler(notificationHandlers, message)
               /\ Get(message, K_method).s = N_throws
            THEN Write(st1, i, sendError(Null, -32603, InternalErrorText, Undefined))
            ELSE st1
        ELSE IF ~HasHandler(messageHandlers, message) THEN
            [Write(st1, i, sendError(Get(message, K_id), -32601, MethodNotFoundText,
                                     Obj(<<K_method>>, <<Get(message, K_method)>>)))
                EXCEPT !.pending = st.pending \cup {i}]
        ELSE [st1 EXCEPT !.pending = st.pending \cup {i}]

\* handleMessage up to its first await, applied to the state st of one
\* processBuffer run.  A TypeError thrown by 'id' in message is caught by the
\* outer catch, whose own 'id' in message throws again: the promise of
\* handleMessage rejects and nothing handles the rejection.
handleMessage(st, message) ==
    LET i == Len(st.log) + 1
        st1 == [st EXCEPT !.log = Append(st.log, MessageEvent(message, <<>>))]
    IN  IF InThrows(message) THEN [st1 EXCEPT !.rejected = TRUE]
        ELSE IF ~HasKey(message, K_id) THEN
            IF HasHandler(notificationHandlers, message)
               /\ Get(message, K_method).s = N_throws
            THEN Write(st1, i, sendError(Null, -32603, InternalErrorText, Undefined))
            ELSE st1
        ELSE IF ~HasHandler(messageHandlers, message) THEN
            Write(st1, i, sendError(Get(message, K_id), -32601, MethodNotFoundText,
                                    Obj(<<K_method>>, <<Get(message, K_method)>>)))
        ELSE [st1 EXCEPT !.pending = st.pending \cup {i}]

\* The loop of processBuffer if it awaited each handleMessage: the frames
\* behind a Request whose handler has not settled are not dispatched.
RECURSIVE Dispatch_Blocking(_, _)
Dispatch_Blocking(st, events) ==
    IF events = <<>> \/ st.pending # {} THEN st
    ELSE LET e == Head(events)
             st1 == IF e.kind = "message"
                    THEN [handleMessage(st, e.message)
                            EXCEPT !.log[Len(st.log) + 1] = e]
                    ELSE Write([st EXCEPT !.log = Append(st.log, e)],
                               Len(st.log) + 1,
                               sendError(Null, -32700, ParseErrorText,
                                         Obj(<<K_originalMessage>>, <<Str(e.messageJson)>>)))
         IN  Dispatch_Blocking(st1, Tail(events))

\* The body of processBuffer's loop for the frames it extracted, in order:
\* handleMessage is called without await, so the loop goes on to the next
\* frame while the handler of the previous one is pending.
RECURSIVE Dispatch(_, _)
Dispatch(st, events) ==
    IF events = <<>> THEN st
    ELSE LET e == Head(events)
             st1 == IF e.kind = "message"
                    THEN [handleMessage(st, e.message)
                            EXCEPT !.log[Len(st.log) + 1] = e]
                    ELSE Write([st EXCEPT !.log = Append(st.log, e)],
                               Len(st.log) + 1,
                               sendError(Null, -32700, ParseErrorText,
                                         Obj(<<K_originalMessage>>, <<Str(e.messageJson)>>)))
         IN  Dispatch(st1, Tail(events))

(***************************************************************************)
(* What a request handler can do: resolve with a value or reject with a    *)
(* thrown value.  A thrown value is [isError |-> instanceof Error,         *)
(* val |-> the value with its properties].                                 *)
(***************************************************************************)
T_boom == <<"b", "o", "o", "m">>
T_VALIDATION_ERROR == <<"V", "A", "L", "I", "D", "A", "T", "I", "O", "N",
                        "_", "E", "R", "R", "O", "R">>
T_CONFIGURATION_ERROR == <<"C", "O", "N", "F", "I", "G", "U", "R", "A", "T", "I", "O", "N",
                           "_", "E", "R", "R", "O", "R">>
T_field == <<"f", "i", "e", "l", "d">>
T_circular == <<"c", "i", "r", "c", "u", "l", "a", "r">>

\* A value JSON.stringify throws a TypeError on.
Circular == [t |-> "circular", s |-> <<>>, k |-> <<>>, v |-> <<>>]

ErrorValue(message) == [isError |-> TRUE, val |-> Obj(<<K_message>>, <<Str(message)>>)]

\* new MCPServerError(code, message, context): context is always an own property.
MCPServerError(code, message, context) ==
    [isError |-> TRUE,
     val |-> Obj(<<K_message, K_code, K_context>>, <<Str(message), Str(code), context>>)]

Resolve(value) == [kind |-> "resolve", value |-> value, thrown |-> ErrorValue(<<>>)]
Reject(thrown) == [kind |-> "reject", value |-> Undefined, thrown |-> thrown]

\* The outcomes of the registered request handler, selected by its params.
OutcomeTable ==
    << Resolve(Str(<<"é">>)),
       Resolve(Undefined),
       Resolve(Circular),
       Reject(ErrorValue(T_boom)),
       Reject(ErrorValue(<<>>)),
       Reject(MCPServerError(T_VALIDATION_ERROR, T_boom, Obj(<<T_field>>, <<Str(<<"a">>)>>))),
       Reject(MCPServerError(T_CONFIGURATION_ERROR, T_boom, Undefined)),
       Reject([isError |-> TRUE,
               val |-> Obj(<<K_message, K_code>>, <<Str(T_boom), IntVal(500)>>)]),
       Reject([isError |-> FALSE,
               val |-> Obj(<<K_message, K_code, K_context>>,
                           <<Str(T_boom), Str(<<"E">>), Str(<<"c">>)>>)]),
       Reject([isError |-> FALSE, val |-> Obj(<<K_message>>, <<Str(T_boom)>>)]),
       Reject([isError |-> FALSE, val |-> Str(T_boom)]) >>

handler(arg) ==
    IF arg.t = "number" /\ arg.s[1] # "-" /\ parseInt(arg.s) \in 1..Len(OutcomeTable)
    THEN OutcomeTable[parseInt(arg.s)]
    ELSE Resolve(Obj(<<>>, <<>>))

\* The catch clause without the instanceof Error test.
ErrorResponse_AnyObject(id, error) ==
    LET structured == /\ HasKey(error.val, K_code)
                      /\ Get(error.val, K_code).t = "string"
        code == IF structured THEN -32000 ELSE -32603
        errorMessage == IF Get(error.val, K_message).t = "string"
                        THEN Get(error.val, K_message).s
                        ELSE InternalErrorText
        data == IF structured
                THEN Obj(<<K_code, K_context>>,
                         <<Get(error.val, K_code),
                           IF HasKey(error.val, K_context)
                           THEN Get(error.val, K_context) ELSE Undefined>>)
                ELSE Undefined
    IN  sendError(id, code, errorMessage, data)

\* The catch clause around the awaited handler.
ErrorResponse(id, error) ==
    LET structured == /\ error.isError
                      /\ HasKey(error.val, K_code)
                      /\ Get(error.val, K_code).t = "string"
        code == IF structured THEN -32000 ELSE -32603
        errorMessage == IF error.isError THEN Get(error.val, K_message).s
                        ELSE InternalErrorText
        data == IF structured
                THEN Obj(<<K_code, K_context>>,
                         <<Get(error.val, K_code),
                           IF HasKey(error.val, K_context)
                           THEN Get(error.val, K_context) ELSE Undefined>>)
                ELSE Undefined
    IN  sendError(id, code, errorMessage, data)

\* The continuation of handleMessage after the awaited handler settled:
\* sendResponse, or the catch clause when the handler rejected or when
\* JSON.stringify threw inside sendResponse.
SettleOutput(message) ==
    LET id == Get(message, K_id)
        outcome == handler(Get(message, K_params))
    IN  IF outcome.kind = "resolve" /\ outcome.value.t # "circular"
        THEN sendResponse(id, outcome.value)
        ELSE IF outcome.kind = "resolve"
        THEN ErrorResponse(id, ErrorValue(T_circular))
        ELSE ErrorResponse(id, outcome.thrown)

(***************************************************************************)
(* Input streams.                                                          *)
(***************************************************************************)
\* A frame as a client that follows the protocol writes it.
Frame(text) ==
    ContentLengthPrefix \o NumberToText(byteLength(text)) \o <<CR, LF, CR, LF>> \o text

\* The same with bare line feeds.
FrameLF(text) ==
    ContentLengthPrefix \o NumberToText(byteLength(text)) \o <<LF, LF>> \o text

Request(id, method) == Obj(<<K_id, K_method>>, <<id, Str(method)>>)
RequestP(id, method, arg) ==
    Obj(<<K_id, K_method, K_params>>, <<id, Str(method), arg>>)
Notification(method) == Obj(<<K_method>>, <<Str(method)>>)

\* The Request for the registered handler with a truthy id.
PlainRequests == { Request(IntVal(1), M_call_tool) }

OtherObjectMessages ==
    { RequestP(IntVal(2), M_call_tool, IntVal(i)) : i \in 1..Len(OutcomeTable) }
    \cup
    { Request(IntVal(7), <<"x">>),
      Request(Str(<<>>), <<"x">>),
      Request(IntVal(0), M_call_tool),
      Request(IntVal(3), <<"é">>),
      Obj(<<K_jsonrpc, K_id, K_method>>, <<V_2_0, Str(<<"a">>), Str(M_call_tool)>>),
      Notification(M_initialized),
      Notification(N_throws),
      Notification(<<"x">>),
      Obj(<<>>, <<>>) }

ObjectMessages == PlainRequests \cup OtherObjectMessages

NonObjectMessages == { Null, IntVal(5), Arr(<<>>) }

Messages == ObjectMessages \cup NonObjectMessages

RegularFrames == { Frame(stringify(m)) : m \in PlainRequests }

ValidFrames == { Frame(stringify(m)) : m \in Messages }

BadJsonFrames == { Frame(<<>>), Frame(<<"{">>) }

\* Bytes in front of a valid frame that are not a Content-Length header.
StrayByte == <<"X">>
ExtraHeader == <<"A", ":", "b", CR, LF>>
MalformedFrames ==
    { junk \o Frame(stringify(Request(IntVal(1), M_call_tool)))
        : junk \in {StrayByte, ExtraHeader} }

Pieces ==
    ValidFrames \cup BadJsonFrames \cup MalformedFrames
    \cup { FrameLF(stringify(Request(IntVal(1), M_call_tool))) }

IrregularCount(ps) == Cardinality({i \in 1..Len(ps) : ps[i] \notin RegularFrames})

\* The sequences of one to n pieces.
RECURSIVE PieceSeqs(_)
PieceSeqs(n) ==
    IF n = 0 THEN {}
    ELSE LET shorter == PieceSeqs(n - 1)
         IN  { <<p>> : p \in Pieces } \cup shorter
             \cup { Append(ps, p) : ps \in {q \in shorter : IrregularCount(q) <= MaxIrregular},
                                    p \in Pieces }

Streams ==
    { Concat(ps) : ps \in { q \in PieceSeqs(MaxFrames) : IrregularCount(q) <= MaxIrregular } }

(***************************************************************************)
(* The retry policy (withRetry), the error mapping (handleGoogleMapsError)  *)
(* and the upstream client (GoogleMapsClient.geocode and its siblings).    *)
(*                                                                         *)
(* An error is [name, hasResponse, status, retryAfter, code, message]:     *)
(* hasResponse says that error.response is set, status and retryAfter are  *)
(* error.response.status and the retry-after header, code is error.code.   *)
(***************************************************************************)
NoHeader == -1       \* no retry-after header
NaNHeader == -2      \* a retry-after header parseInt cannot read

\* The options of withRetry; retryCondition is "default" for the function
\* of lines 18-28 and "always" for a caller's predicate that accepts every
\* failure.
DefaultOptions ==
    [maxAttempts |-> 3, baseDelay |-> 1000, maxDelay |-> 10000, jitter |-> TRUE,
     retryCondition |-> "default"]

\* The options a direct caller of withRetry passes.
OptionSets ==
    { [maxAttempts |-> m, baseDelay |-> 1000, maxDelay |-> d, jitter |-> jt,
       retryCondition |-> rc]
        : m \in 1..MaxAttempts, d \in {10000, 1500}, jt \in BOOLEAN,
          rc \in {"default", "always"} }

NoError == [name |-> "none", hasResponse |-> FALSE, status |-> 0,
            retryAfter |-> NoHeader, code |-> "", message |-> ""]

HttpError(status, retryAfter) ==
    [name |-> "AxiosError", hasResponse |-> TRUE, status |-> status,
     retryAfter |-> retryAfter, code |-> "ERR_BAD_RESPONSE", message |-> "http"]

NetworkError(code) ==
    [name |-> "AxiosError", hasResponse |-> FALSE, status |-> 0,
     retryAfter |-> NoHeader, code |-> code, message |-> "network"]

\* What the upstream HTTP call of one attempt can do.
UpstreamFailures ==
    { HttpError(400, NoHeader), HttpError(429, NoHeader), HttpError(429, 5),
      HttpError(500, NoHeader), HttpError(503, 20), HttpError(503, NaNHeader) }
    \cup { NetworkError(c) : c \in {"ECONNREFUSED", "ENOTFOUND", "ETIMEDOUT", "ECONNABORTED"} }

UpstreamOutcomes ==
    { [ok |-> TRUE, error |-> NoError] }
    \cup { [ok |-> FALSE, error |-> e] : e \in UpstreamFailures }

\* handleGoogleMapsError(error, endpoint): the MCPServerError it throws.
handleGoogleMapsError(error) ==
    IF error.hasResponse THEN
        IF error.status = 429
        THEN [name |-> "RateLimitError", hasResponse |-> FALSE, status |-> 0,
              retryAfter |-> NoHeader, code |-> "RATE_LIMIT_ERROR",
              message |-> "Google Maps API error"]
        ELSE [name |-> "GoogleMapsAPIError", hasResponse |-> FALSE, status |-> 0,
              retryAfter |-> NoHeader, code |-> "GOOGLE_MAPS_API_ERROR",
              message |-> "Google Maps API error"]
    ELSE IF error.code \in {"ECONNREFUSED", "ENOTFOUND"}
    THEN [name |-> "GoogleMapsAPIError", hasResponse |-> FALSE, status |-> 0,
          retryAfter |-> NoHeader, code |-> "GOOGLE_MAPS_API_ERROR",
          message |-> "Network error connecting to Google Maps API"]
    ELSE [name |-> "GoogleMapsAPIError", hasResponse |-> FALSE, status |-> 0,
          retryAfter |-> NoHeader, code |-> "GOOGLE_MAPS_API_ERROR",
          message |-> "Unexpected error"]

\* The default retryCondition of withRetry.
retryCondition(error) ==
    IF error.hasResponse
    THEN error.status >= 500 \/ error.status = 429
    ELSE error.code \in {"ECONNREFUSED", "ENOTFOUND", "ETIMEDOUT"}

\* options.retryCondition(error)
ShouldRetry(opts, error) ==
    IF opts.retryCondition = "default" THEN retryCondition(error) ELSE TRUE

\* A variant of the throw condition that never asks retryCondition.
ThrowsNow_LastOnly(opts, k, error) == k = opts.maxAttempts

\* A variant of the throw condition that gives up one attempt early.
ThrowsNow_OneEarly(opts, k, error) ==
    k >= opts.maxAttempts - 1 \/ ~ShouldRetry(opts, error)

\* The condition of line 39: the failure of attempt k is thrown.
ThrowsNow(opts, k, error) ==
    k = opts.maxAttempts \/ ~ShouldRetry(opts, error)

RECURSIVE Pow2(_)
Pow2(n) == IF n = 0 THEN 1 ELSE 2 * Pow2(n - 1)

Min(a, b) == IF a < b THEN a ELSE b
Max(a, b) == IF a > b THEN a ELSE b

\* A variant of the delay without the cap of the backoff at maxDelay.
RetryDelay_NoCap(opts, k, error, j) ==
    LET backoff == opts.baseDelay * Pow2(k - 1)
        jittered == IF opts.jitter
                    THEN (backoff * (JitterSteps + j)) \div (2 * JitterSteps)
                    ELSE backoff
    IN  IF error.hasResponse /\ error.retryAfter >= 1
        THEN Max(jittered, error.retryAfter * 1000)
        ELSE jittered

\* A variant of the delay that caps the Retry-After wait at maxDelay.
RetryDelay_Capped(opts, k, error, j) ==
    LET backoff == Min(opts.baseDelay * Pow2(k - 1), opts.maxDelay)
        jittered == IF opts.jitter
                    THEN (backoff * (JitterSteps + j)) \div (2 * JitterSteps)
                    ELSE backoff
    IN  IF error.hasResponse /\ error.retryAfter >= 1
        THEN Min(Max(jittered, error.retryAfter * 1000), opts.maxDelay)
        ELSE jittered

\* The delay withRetry sleeps after the failed attempt k, in milliseconds,
\* when Math.random returned j / JitterSteps.
RetryDelay(opts, k, error, j) ==
    LET backoff == Min(opts.baseDelay * Pow2(k - 1), opts.maxDelay)
        jittered == IF opts.jitter
                    THEN (backoff * (JitterSteps + j)) \div (2 * JitterSteps)
                    ELSE backoff
    IN  IF error.hasResponse /\ error.retryAfter >= 1
        THEN Max(jittered, error.retryAfter * 1000)
        ELSE jittered

\* The error the operation passed to withRetry throws when its upstream call
\* failed with raw: the closures of GoogleMapsClient catch it and throw what
\* handleGoogleMapsError makes of it.
OperationError(isWrapped, raw) == IF isWrapped THEN handleGoogleMapsError(raw) ELSE raw

(***************************************************************************)
(* Cache.createKey and the Cache around an LRUCache created with ttl,      *)
(* updateAgeOnGet and updateAgeOnHas (utils/cache.ts).  An entry is        *)
(* [value, start]; start is the time of the last set, or of the last get   *)
(* or has that found the entry live.  The models hold fewer than maxSize   *)
(* keys, so the LRUCache never evicts for size.                            *)
(***************************************************************************)
\* The characters of property names, in UTF-16 code unit order.
CodeUnitOrder ==
    << "0", "1", "2", "3", "4", "5", "6", "7", "8", "9", "A", "B", "C",
       "D", "E", "F", "G", "H", "I", "J", "K", "L", "M", "N", "O", "P",
       "Q", "R", "S", "T", "U", "V", "W", "X", "Y", "Z", "_", "a", "b",
       "c", "d", "e", "f", "g", "h", "i", "j", "k", "l", "m", "n", "o",
       "p", "q", "r", "s", "t", "u", "v", "w", "x", "y", "z" >>

CodeUnit(c) == CHOOSE i \in 1..Len(CodeUnitOrder) : CodeUnitOrder[i] = c

\* a < b in the order of Array.prototype.sort without a comparator.
RECURSIVE TextLess(_, _)
TextLess(a, b) ==
    IF a = <<>> THEN b # <<>>
    ELSE IF b = <<>> THEN FALSE
    ELSE IF Head(a) = Head(b) THEN TextLess(Tail(a), Tail(b))
    ELSE CodeUnit(Head(a)) < CodeUnit(Head(b))

\* Object.keys(params).sort()
RECURSIVE SortTexts(_)
SortTexts(texts) ==
    IF texts = {} THEN <<>>
    ELSE LET least == CHOOSE x \in texts : \A y \in texts \ {x} : TextLess(x, y)
         IN  <<least>> \o SortTexts(texts \ {least})

\* `${JSON.stringify(value)}`
StringifyInTemplate(val) ==
    IF val.t = "undefined" THEN <<"u", "n", "d", "e", "f", "i", "n", "e", "d">> ELSE stringify(val)

RECURSIVE JoinPairs(_, _, _)
JoinPairs(obj, keys, i) ==
    IF i > Len(keys) THEN <<>>
    ELSE (IF i = 1 THEN <<>> ELSE <<"&">>)
         \o keys[i] \o <<"=">> \o StringifyInTemplate(Get(obj, keys[i]))
         \o JoinPairs(obj, keys, i + 1)

\* Cache.createKey(prefix, params)
createKey(prefix, obj) ==
    prefix \o <<":">> \o JoinPairs(obj, SortTexts({obj.k[i] : i \in 1..Len(obj.k)}), 1)

\* The logical content of a value: its properties in sorted order, at
\* every depth.
RECURSIVE Canonical(_)
Canonical(val) ==
    IF val.t = "object"
    THEN LET keys == SortTexts({val.k[i] : i \in 1..Len(val.k)})
         IN  Obj(keys, [i \in 1..Len(keys) |-> Canonical(Get(val, keys[i]))])
    ELSE IF val.t = "array"
    THEN Arr([i \in 1..Len(val.v) |-> Canonical(val.v[i])])
    ELSE val

SameLogical(a, b) == Canonical(a) = Canonical(b)

\* The params of GoogleMapsClient.placesSearchText used by the model.
K_textQuery == <<"t", "e", "x", "t", "Q", "u", "e", "r", "y">>
K_locationBias == <<"l", "o", "c", "a", "t", "i", "o", "n", "B", "i", "a", "s">>
K_lat == <<"l", "a", "t">>
K_lng == <<"l", "n", "g">>
T_places_search_text == <<"p", "l", "a", "c", "e", "s", "_", "s", "e", "a", "r", "c", "h", "_", "t", "e", "x", "t">>

Bias(first) ==
    IF first = K_lat
    THEN Obj(<<K_lat, K_lng>>, <<IntVal(1), IntVal(2)>>)
    ELSE Obj(<<K_lng, K_lat>>, <<IntVal(2), IntVal(1)>>)

ParamSet ==
    { Obj(<<K_textQuery>>, <<Str(<<"b">>)>>),
      Obj(<<K_textQuery, K_locationBias>>, <<Str(<<"a">>), Bias(K_lat)>>),
      Obj(<<K_locationBias, K_textQuery>>, <<Bias(K_lat), Str(<<"a">>)>>),
      Obj(<<K_textQuery, K_locationBias>>, <<Str(<<"a">>), Bias(K_lng)>>) }

NoValue == Undefined

\* response.data of the upstream's answer to the request params.
ResponseData(obj) == Obj(<<K_result>>, <<Get(obj, K_textQuery)>>)

NoEntries == [key \in {} |-> [value |-> NoValue, start |-> 0]]

\* LRUCache: the entry is older than the ttl.
IsStale(entries, key, ttl, t) == ttl > 0 /\ t - entries[key].start > ttl

Without(entries, key) == [k \in DOMAIN entries \ {key} |-> entries[k]]
With(entries, key, value, t) ==
    [k \in DOMAIN entries \cup {key} |->
        IF k = key THEN [value |-> value, start |-> t] ELSE entries[k]]

\* A variant of Cache.get that leaves the age of the entry alone.
CacheGet_NoRefresh(key) ==
    IF ~enabled \/ key \notin DOMAIN cache THEN [cache |-> cache, value |-> NoValue]
    ELSE IF IsStale(cache, key, ttlMs, now)
    THEN [cache |-> Without(cache, key), value |-> NoValue]
    ELSE [cache |-> cache, value |-> cache[key].value]

\* Cache.get(key): [cache |-> the entries afterwards, value |-> the result].
CacheGet(key) ==
    IF ~enabled \/ key \notin DOMAIN cache THEN [cache |-> cache, value |-> NoValue]
    ELSE IF IsStale(cache, key, ttlMs, now)
    THEN [cache |-> Without(cache, key), value |-> NoValue]
    ELSE [cache |-> With(cache, key, cache[key].value, now), value |-> cache[key].value]

\* A variant of Cache.set that ignores the enabled flag.
CacheSet_Always(key, value) ==
    IF value.t = "undefined" THEN Without(cache, key) ELSE With(cache, key, value, now)

\* Cache.set(key, value): the entries afterwards.  LRUCache.set deletes the
\* key when the value is undefined.
CacheSet(key, value) ==
    IF ~enabled THEN cache
    ELSE IF value.t = "undefined" THEN Without(cache, key)
    ELSE With(cache, key, value, now)

\* Cache.has(key): [cache, value], value the boolean returned.
CacheHas(key) ==
    IF ~enabled \/ key \notin DOMAIN cache THEN [cache |-> cache, value |-> FALSE]
    ELSE IF IsStale(cache, key, ttlMs, now) THEN [cache |-> cache, value |-> FALSE]
    ELSE [cache |-> With(cache, key, cache[key].value, now), value |-> TRUE]

\* Cache.delete(key): [cache, value], value the boolean returned.
CacheDelete(key) ==
    IF ~enabled THEN [cache |-> cache, value |-> FALSE]
    ELSE [cache |-> Without(cache, key), value |-> key \in DOMAIN cache]

\* Cache.getStats().size
CacheSize == Cardinality(DOMAIN cache)

(***************************************************************************)
(* TokenBucket and RateLimiter (utils/rate-limiter.ts).  Tokens are kept   *)
(* in thousandths of a token, so that the refill of a whole number of      *)
(* milliseconds at a whole refill rate is exact.                           *)
(***************************************************************************)
Milli == 1000

\* new TokenBucket(capacity, refillRate)
NewBucket == [tokens |-> capacity * Milli, lastRefill |-> now]

\* TokenBucket.refill()
Refill(bucket) ==
    [tokens |-> Min(capacity * Milli, bucket.tokens + (now - bucket.lastRefill) * refillRate),
     lastRefill |-> now]

\* A variant of consume that wants more tokens than it takes.
Consume_Strict(bucket, n) ==
    LET b == Refill(bucket)
    IN  IF b.tokens > n * Milli
        THEN [ok |-> TRUE, bucket |-> [b EXCEPT !.tokens = b.tokens - n * Milli]]
        ELSE [ok |-> FALSE, bucket |-> b]

\* TokenBucket.consume(n): [ok, bucket]
Consume(bucket, n) ==
    LET b == Refill(bucket)
    IN  IF b.tokens >= n * Milli
        THEN [ok |-> TRUE, bucket |-> [b EXCEPT !.tokens = b.tokens - n * Milli]]
        ELSE [ok |-> FALSE, bucket |-> b]

\* Math.ceil(a / b) for a >= 0, b > 0
CeilDiv(a, b) == (a + b - 1) \div b

\* Math.ceil(TokenBucket.getWaitTime(n)), in milliseconds
CeilWaitTime(bucket, n) ==
    LET b == Refill(bucket)
    IN  IF b.tokens >= n * Milli THEN 0
        ELSE CeilDiv(n * Milli - b.tokens, refillRate)

\* RateLimiter.checkLimit(key, n): [ok, wait, buckets]; wait is the number
\* in the message of the Error thrown when ok is FALSE.
CheckLimit(key, n) ==
    LET bucket == IF key \in DOMAIN buckets THEN buckets[key] ELSE NewBucket
        r == Consume(bucket, n)
        after == [k \in DOMAIN buckets \cup {key} |-> IF k = key THEN r.bucket ELSE buckets[k]]
    IN  [ok |-> r.ok,
         wait |-> IF r.ok THEN 0 ELSE CeilWaitTime(r.bucket, n),
         buckets |-> after]

NoBuckets == [key \in {} |-> [tokens |-> 0, lastRefill |-> 0]]

(***************************************************************************)
(* Actions of the transport.                                               *)
(***************************************************************************)
InitTransport ==
    /\ pos = 0
    /\ buffer = <<>>
    /\ log = <<>>
    /\ pending = {}
    /\ stdout = <<>>
    /\ exitCode = Running

InitClientIdle ==
    /\ options = DefaultOptions
    /\ params = NoValue
    /\ rpc = "idle"
    /\ attempt = 0
    /\ upstream = <<>>
    /\ delays = <<>>
    /\ settled = [ok |-> TRUE, value |-> NoValue, error |-> NoError]
    /\ callNo = 0
    /\ cache = NoEntries

\* The defaults of MCPServer's constructor.
DefaultTtl == 300000
DefaultCapacity == 100
DefaultRefillRate == 10

\* A server with the default configuration that has done nothing yet.
InitShapingIdle ==
    /\ now = 0
    /\ enabled = TRUE
    /\ ttlMs = DefaultTtl
    /\ reads = <<>>
    /\ capacity = DefaultCapacity
    /\ refillRate = DefaultRefillRate
    /\ buckets = NoBuckets
    /\ checks = <<>>
    /\ steps = <<>>
    /\ keyed = <<>>

Init ==
    /\ stream \in Streams
    /\ InitTransport
    /\ wrapped = TRUE
    /\ InitClientIdle
    /\ InitShapingIdle

\* process.stdin.on('data'): append the chunk and run processBuffer.  The
\* unhandledRejection handler of setupErrorHandling runs, and exits with
\* code 1, once the callback and its microtasks are done.
StdinData(n) ==
    /\ exitCode = Running
    /\ n >= 1
    /\ pos + n <= Len(stream)
    /\ LET chunk == SubSeq(stream, pos + 1, pos + n)
           r == processBuffer(buffer \o chunk)
           st == Dispatch([log |-> log, pending |-> pending, stdout |-> stdout,
                           rejected |-> FALSE],
                          r.events)
       IN  /\ buffer' = r.buffer
           /\ log' = st.log
           /\ pending' = st.pending
           /\ stdout' = st.stdout
           /\ exitCode' = IF st.rejected THEN 1 ELSE exitCode
    /\ pos' = pos + n
    /\ UNCHANGED <<stream, cvars, svars>>

\* The awaited handler of the Request logged at i settles.
HandlerSettle(i) ==
    /\ exitCode = Running
    /\ i \in pending
    /\ pending' = pending \ {i}
    /\ stdout' = Append(stdout, [by |-> i, output |-> SettleOutput(log[i].message)])
    /\ UNCHANGED <<stream, pos, buffer, log, exitCode, cvars, svars>>

\* process.stdin.on('end')
StdinEnd ==
    /\ exitCode = Running
    /\ pos = Len(stream)
    /\ exitCode' = 0
    /\ UNCHANGED <<stream, pos, buffer, log, pending, stdout, cvars, svars>>

ChunkSizes == {ChunkLen, Len(stream) - pos}

Next ==
    \/ \E n \in ChunkSizes : StdinData(n)
    \/ \E i \in pending : HandlerSettle(i)
    \/ StdinEnd

Spec == Init /\ [][Next]_vars

(***************************************************************************)
(* Actions of the upstream client and of withRetry.                        *)
(***************************************************************************)
InitClient ==
    /\ stream = <<>>
    /\ InitTransport
    /\ wrapped \in BOOLEAN
    /\ InitClientIdle
    /\ InitShapingIdle

\* GoogleMapsClient.placesSearchText (like geocode and the other cached
\* methods) up to its first await: a cached value is
\* returned, otherwise withRetry starts its first attempt.  When the
\* operation is not a closure of the client, withRetry is called directly.
ClientEnter(p) ==
    /\ params' = p
    /\ upstream' = <<>>
    /\ delays' = <<>>
    /\ LET cached == CacheGet(createKey(T_places_search_text, p))
       IN  IF wrapped /\ Truthy(cached.value)
           THEN /\ rpc' = "returned"
                /\ settled' = [ok |-> TRUE, value |-> cached.value, error |-> NoError]
                /\ attempt' = 0
                /\ cache' = cached.cache
           ELSE /\ rpc' = "calling"
                /\ settled' = [ok |-> TRUE, value |-> NoValue, error |-> NoError]
                /\ attempt' = 1
                /\ cache' = IF wrapped THEN cached.cache ELSE cache

\* A caller of the client calls the method.
ClientCall(p) ==
    /\ rpc \in {"idle", "returned", "thrown"}
    /\ callNo < MaxCalls
    /\ callNo' = callNo + 1
    /\ ClientEnter(p)
    /\ UNCHANGED <<options, wrapped, tvars, svars>>

\* A variant of the settling that stores whatever the attempt produced,
\* the undefined result of a failed attempt included, before it looks at
\* the outcome.
UpstreamResult_StoreFirst(outcome, j) ==
    /\ rpc = "calling"
    /\ upstream' = Append(upstream, outcome)
    /\ cache' = IF wrapped
                THEN With(cache, createKey(T_places_search_text, params),
                          IF outcome.ok THEN ResponseData(params) ELSE Null, now)
                ELSE cache
    /\ IF outcome.ok
       THEN /\ rpc' = "returned"
            /\ settled' = [ok |-> TRUE, value |-> ResponseData(params), error |-> NoError]
            /\ UNCHANGED delays
       ELSE LET error == OperationError(wrapped, outcome.error)
            IN  IF ThrowsNow(options, attempt, error)
                THEN /\ rpc' = "thrown"
                     /\ settled' = [ok |-> FALSE, value |-> NoValue, error |-> error]
                     /\ UNCHANGED delays
                ELSE /\ rpc' = "sleeping"
                     /\ delays' = Append(delays, RetryDelay(options, attempt, error, j))
                     /\ UNCHANGED settled
    /\ UNCHANGED <<options, wrapped, params, attempt, callNo>>

\* The upstream call of the current attempt settles: the body of
\* withRetry's loop from the await to the return, the throw or the sleep.
UpstreamResult(outcome, j) ==
    /\ rpc = "calling"
    /\ upstream' = Append(upstream, outcome)
    /\ IF outcome.ok
       THEN /\ rpc' = "returned"
            /\ settled' = [ok |-> TRUE, value |-> ResponseData(params), error |-> NoError]
            /\ cache' = IF wrapped
                        THEN CacheSet(createKey(T_places_search_text, params),
                                      ResponseData(params))
                        ELSE cache
            /\ UNCHANGED delays
       ELSE LET error == OperationError(wrapped, outcome.error)
            IN  IF ThrowsNow(options, attempt, error)
                THEN /\ rpc' = "thrown"
                     /\ settled' = [ok |-> FALSE, value |-> NoValue, error |-> error]
                     /\ UNCHANGED <<delays, cache>>
                ELSE /\ rpc' = "sleeping"
                     /\ delays' = Append(delays, RetryDelay(options, attempt, error, j))
                     /\ UNCHANGED <<settled, cache>>
    /\ UNCHANGED <<options, wrapped, params, attempt, callNo>>

\* The same when nothing else of the server is involved.
UpstreamSettle(outcome, j) ==
    /\ UpstreamResult(outcome, j)
    /\ UNCHANGED <<tvars, svars>>

\* The timer of sleep fires: the next attempt starts.
SleepDone ==
    /\ rpc = "sleeping"
    /\ attempt' = attempt + 1
    /\ rpc' = "calling"
    /\ UNCHANGED <<options, wrapped, params, upstream, delays, settled, callNo, cache, tvars, svars>>

NextClient ==
    \/ \E p \in ParamSet : ClientCall(p)
    \/ \E outcome \in UpstreamOutcomes, j \in 0..(JitterSteps - 1) : UpstreamSettle(outcome, j)
    \/ SleepDone

SpecClient == InitClient /\ [][NextClient]_vars

(***************************************************************************)
(* withRetry called directly with an operation that throws what its        *)
(* upstream call fails with.                                               *)
(***************************************************************************)
RetryFailures ==
    { HttpError(400, NoHeader), HttpError(429, 5), HttpError(500, NoHeader),
      HttpError(503, 20), HttpError(503, NaNHeader), NetworkError("ETIMEDOUT") }

RetryOutcomes ==
    { [ok |-> TRUE, error |-> NoError] }
    \cup { [ok |-> FALSE, error |-> e] : e \in RetryFailures }

\* withRetry(operation, options) up to its first await.
InitRetry ==
    /\ stream = <<>>
    /\ InitTransport
    /\ wrapped = FALSE
    /\ options \in OptionSets
    /\ params = Obj(<<K_textQuery>>, <<Str(<<"b">>)>>)
    /\ rpc = "calling"
    /\ attempt = 1
    /\ upstream = <<>>
    /\ delays = <<>>
    /\ settled = [ok |-> TRUE, value |-> NoValue, error |-> NoError]
    /\ callNo = 1
    /\ cache = NoEntries
    /\ InitShapingIdle

NextRetry ==
    \/ \E outcome \in RetryOutcomes, j \in 0..(JitterSteps - 1) : UpstreamSettle(outcome, j)
    \/ SleepDone

SpecRetry == InitRetry /\ [][NextRetry]_vars

(***************************************************************************)
(* The RateLimiter on its own: checkLimit calls for the keys of two tools  *)
(* while time passes.                                                      *)
(***************************************************************************)
RateSet == {1, 2, 3}
TickSet == {250, 500}
LimiterKeys == {"tool:geocode_search", "tool:places_search_text"}

InitLimiter ==
    /\ stream = <<>>
    /\ InitTransport
    /\ wrapped = TRUE
    /\ InitClientIdle
    /\ now = 0
    /\ enabled = TRUE
    /\ ttlMs = DefaultTtl
    /\ reads = <<>>
    /\ capacity \in 1..MaxCapacity
    /\ refillRate \in RateSet
    /\ buckets = NoBuckets
    /\ checks = <<>>
    /\ steps = <<>>
    /\ keyed = <<>>

\* Time passes.
Tick(d) ==
    /\ now + d <= MaxTime
    /\ now' = now + d
    /\ UNCHANGED <<tvars, cvars, kvars, lvars, steps, keyed>>

\* await rateLimiter.checkLimit(key)
LimiterCheck(key) ==
    /\ Len(checks) < MaxChecks
    /\ LET r == CheckLimit(key, 1)
       IN  /\ buckets' = r.buckets
           /\ checks' = Append(checks, [key |-> key, at |-> now, ok |-> r.ok, wait |-> r.wait])
    /\ UNCHANGED <<tvars, cvars, now, kvars, capacity, refillRate, steps, keyed>>

NextLimiter ==
    \/ \E d \in TickSet : Tick(d)
    \/ \E key \in LimiterKeys : LimiterCheck(key)

SpecLimiter == InitLimiter /\ [][NextLimiter]_vars

(***************************************************************************)
(* A TokenBucket on its own: consume, getAvailableTokens and getWaitTime   *)
(* called between readings of Date.now().  Date.now() is the wall clock of *)
(* the host, which can be set back: any reading may follow any other.      *)
(***************************************************************************)
BucketKey == "bucket"
ClockSet == {0, 250, 500}
ConsumeSet == {1, 2}

\* new TokenBucket(capacity, refillRate) at time 0
InitBucket ==
    /\ stream = <<>>
    /\ InitTransport
    /\ wrapped = TRUE
    /\ InitClientIdle
    /\ now = 0
    /\ enabled = TRUE
    /\ ttlMs = DefaultTtl
    /\ reads = <<>>
    /\ capacity \in 1..MaxCapacity
    /\ refillRate \in RateSet
    /\ buckets = [key \in {BucketKey} |-> [tokens |-> capacity * Milli, lastRefill |-> 0]]
    /\ checks = <<>>
    /\ steps = <<>>
    /\ keyed = <<>>

\* The next reading of Date.now() is t.
ClockReads(t) ==
    /\ t # now
    /\ now' = t
    /\ UNCHANGED <<tvars, cvars, kvars, lvars, steps, keyed>>

\* What checks keeps of a call: the method, its argument, the reading of
\* the clock, what consume returned, the tokens after the refill and the
\* tokens when the method returned (in thousandths of a token).
BucketCall(op, n, ok, before, after) ==
    [op |-> op, n |-> n, at |-> now, ok |-> ok, before |-> before, after |-> after]

\* bucket.consume(n)
BucketConsume(n) ==
    /\ Len(checks) < MaxBucketOps
    /\ LET r == Consume(buckets[BucketKey], n)
       IN  /\ buckets' = [buckets EXCEPT ![BucketKey] = r.bucket]
           /\ checks' = Append(checks, BucketCall("consume", n, r.ok,
                                                  Refill(buckets[BucketKey]).tokens,
                                                  r.bucket.tokens))
    /\ UNCHANGED <<tvars, cvars, now, kvars, capacity, refillRate, steps, keyed>>

\* bucket.getAvailableTokens()
BucketAvailable ==
    /\ Len(checks) < MaxBucketOps
    /\ LET b == Refill(buckets[BucketKey])
       IN  /\ buckets' = [buckets EXCEPT ![BucketKey] = b]
           /\ checks' = Append(checks, BucketCall("getAvailableTokens", 0, TRUE,
                                                  b.tokens, b.tokens))
    /\ UNCHANGED <<tvars, cvars, now, kvars, capacity, refillRate, steps, keyed>>

\* bucket.getWaitTime(n)
BucketWaitTime(n) ==
    /\ Len(checks) < MaxBucketOps
    /\ LET b == Refill(buckets[BucketKey])
       IN  /\ buckets' = [buckets EXCEPT ![BucketKey] = b]
           /\ checks' = Append(checks, BucketCall("getWaitTime", n, b.tokens >= n * Milli,
                                                  b.tokens, b.tokens))
    /\ UNCHANGED <<tvars, cvars, now, kvars, capacity, refillRate, steps, keyed>>

NextBucket ==
    \/ \E t \in ClockSet : ClockReads(t)
    \/ \E n \in ConsumeSet : BucketConsume(n)
    \/ BucketAvailable
    \/ \E n \in ConsumeSet : BucketWaitTime(n)

SpecBucket == InitBucket /\ [][NextBucket]_vars

(***************************************************************************)
(* The Cache while time passes: its methods called directly (through       *)
(* MCPServer.getCache) for a key of the caller's own, and the cached       *)
(* method of the client.                                                   *)
(***************************************************************************)
TtlSet == {400, 500}
CacheTickSet == {500}
OwnKeys == { <<"k", "1">> }
OwnValues == { Str(<<"v">>), Str(<<"w">>) }
CacheOutcomes ==
    { [ok |-> TRUE, error |-> NoError], [ok |-> FALSE, error |-> HttpError(500, NoHeader)] }

InitCache ==
    /\ stream = <<>>
    /\ InitTransport
    /\ wrapped = TRUE
    /\ InitClientIdle
    /\ now = 0
    /\ enabled \in BOOLEAN
    /\ ttlMs \in TtlSet
    /\ reads = <<>>
    /\ capacity = DefaultCapacity
    /\ refillRate = DefaultRefillRate
    /\ buckets = NoBuckets
    /\ checks = <<>>
    /\ steps = <<>>
    /\ keyed = <<>>

\* What a direct call leaves in reads: the method, its key, the time, the
\* value a get returned, the boolean a has or delete returned, the value a
\* set was given, and getStats().size afterwards.
Read(op, key, value, flag, given, entries) ==
    [op |-> op, key |-> key, at |-> now, value |-> value, flag |-> flag,
     given |-> given, size |-> Cardinality(DOMAIN entries)]

\* cache.get(key)
CacheOpGet(key) ==
    /\ LET r == CacheGet(key)
       IN  /\ cache' = r.cache
           /\ reads' = Append(reads, Read("get", key, r.value, FALSE, NoValue, r.cache))
    /\ UNCHANGED <<tvars, options, wrapped, params, rpc, attempt, upstream, delays,
                   settled, callNo, now, enabled, ttlMs, lvars, steps, keyed>>

\* cache.set(key, value)
CacheOpSet(key, value) ==
    /\ cache' = CacheSet(key, value)
    /\ reads' = Append(reads, Read("set", key, NoValue, FALSE, value, CacheSet(key, value)))
    /\ UNCHANGED <<tvars, options, wrapped, params, rpc, attempt, upstream, delays,
                   settled, callNo, now, enabled, ttlMs, lvars, steps, keyed>>

\* cache.has(key)
CacheOpHas(key) ==
    /\ LET r == CacheHas(key)
       IN  /\ cache' = r.cache
           /\ reads' = Append(reads, Read("has", key, NoValue, r.value, NoValue, r.cache))
    /\ UNCHANGED <<tvars, options, wrapped, params, rpc, attempt, upstream, delays,
                   settled, callNo, now, enabled, ttlMs, lvars, steps, keyed>>

\* cache.delete(key)
CacheOpDelete(key) ==
    /\ LET r == CacheDelete(key)
       IN  /\ cache' = r.cache
           /\ reads' = Append(reads, Read("delete", key, NoValue, r.value, NoValue, r.cache))
    /\ UNCHANGED <<tvars, options, wrapped, params, rpc, attempt, upstream, delays,
                   settled, callNo, now, enabled, ttlMs, lvars, steps, keyed>>

\* cache.clear()
CacheOpClear ==
    /\ cache' = NoEntries
    /\ reads' = Append(reads, Read("clear", <<>>, NoValue, FALSE, NoValue, NoEntries))
    /\ UNCHANGED <<tvars, options, wrapped, params, rpc, attempt, upstream, delays,
                   settled, callNo, now, enabled, ttlMs, lvars, steps, keyed>>

NextCache ==
    \/ \E d \in CacheTickSet : Tick(d)
    \/ /\ Len(reads) + callNo < MaxOps
       /\ \/ \E key \in OwnKeys : CacheOpGet(key)
          \/ \E key \in OwnKeys, value \in OwnValues : CacheOpSet(key, value)
          \/ \E key \in OwnKeys : CacheOpHas(key)
          \/ \E key \in OwnKeys : CacheOpDelete(key)
          \/ CacheOpClear
          \/ \E obj \in ParamSet : ClientCall(obj)
    \/ \E outcome \in CacheOutcomes : UpstreamSettle(outcome, 0)

SpecCache == InitCache /\ [][NextCache]_vars

(***************************************************************************)
(* Cache.createKey called on its own.                                      *)
(***************************************************************************)
K_a == <<"a">>
K_b == <<"b">>

\* Parameter objects: flat and nested, in both insertion orders, with an
\* undefined property, and empty.
KeyParamSet ==
    ParamSet \cup
    { Obj(<<K_locationBias, K_textQuery>>, <<Bias(K_lng), Str(<<"a">>)>>),
      Obj(<<K_a, K_b>>, <<IntVal(1), IntVal(2)>>),
      Obj(<<K_b, K_a>>, <<IntVal(2), IntVal(1)>>),
      Obj(<<K_a, K_b>>, <<IntVal(2), IntVal(1)>>),
      Obj(<<K_a, K_b>>, <<IntVal(1), Undefined>>),
      Obj(<<K_b, K_a>>, <<Undefined, IntVal(1)>>),
      Obj(<<K_a>>, <<IntVal(1)>>),
      Obj(<<>>, <<>>) }

InitKey ==
    /\ stream = <<>>
    /\ InitTransport
    /\ wrapped = TRUE
    /\ InitClientIdle
    /\ InitShapingIdle

\* Cache.createKey('places_search_text', obj)
CreateKeyCall(obj) ==
    /\ Len(keyed) < MaxKeyCalls
    /\ keyed' = Append(keyed, [params |-> obj, key |-> createKey(T_places_search_text, obj)])
    /\ UNCHANGED <<tvars, cvars, now, kvars, lvars, steps>>

NextKey == \E obj \in KeyParamSet : CreateKeyCall(obj)

SpecKey == InitKey /\ [][NextKey]_vars

(***************************************************************************)
(* The call_tool handler of MCPServer around the places_search_text tool:  *)
(* handleCallTool, the tool handler it awaits and the cached method of the *)
(* client the tool handler awaits (createGeocodeSearchHandler with         *)
(* GoogleMapsClient.geocode, and the other tools, have the same shape).    *)
(* The invocation number n stands for the call_tool Request with id n,     *)
(* whose Response the transport writes when handleCallTool settles.        *)
(***************************************************************************)
K_query ==
    <<"q", "u", "e", "r", "y">>
K_languageCode ==
    <<"l", "a", "n", "g", "u", "a", "g", "e", "C", "o", "d", "e">>
K_regionCode ==
    <<"r", "e", "g", "i", "o", "n", "C", "o", "d", "e">>
K_maxResultCount ==
    <<"m", "a", "x", "R", "e", "s", "u", "l", "t", "C", "o", "u", "n", "t">>
K_content ==
    <<"c", "o", "n", "t", "e", "n", "t">>
K_type ==
    <<"t", "y", "p", "e">>
K_text ==
    <<"t", "e", "x", "t">>
K_retryAfter ==
    <<"r", "e", "t", "r", "y", "A", "f", "t", "e", "r">>
K_response_data ==
    <<"r", "e", "s", "p", "o", "n", "s", "e", "_", "d", "a", "t", "a">>
K_endpoint ==
    <<"e", "n", "d", "p", "o", "i", "n", "t">>
K_status ==
    <<"s", "t", "a", "t", "u", "s">>
T_nope ==
    <<"n", "o", "p", "e">>
T_tool ==
    <<"t", "o", "o", "l", ":">>
T_RATE_LIMIT_ERROR ==
    <<"R", "A", "T", "E", "_", "L", "I", "M", "I", "T", "_", "E", "R", "R",
      "O", "R">>
T_GOOGLE_MAPS_API_ERROR ==
    <<"G", "O", "O", "G", "L", "E", "_", "M", "A", "P", "S", "_", "A", "P",
      "I", "_", "E", "R", "R", "O", "R">>
T_UnknownTool ==
    <<"U", "n", "k", "n", "o", "w", "n", " ", "t", "o", "o", "l", ":", " ">>
T_RateLimitExceeded ==
    <<"R", "a", "t", "e", " ", "l", "i", "m", "i", "t", " ", "e", "x", "c",
      "e", "e", "d", "e", "d", ".", " ", "W", "a", "i", "t", " ">>
T_msBeforeRetrying ==
    <<"m", "s", " ", "b", "e", "f", "o", "r", "e", " ", "r", "e", "t", "r",
      "y", "i", "n", "g", ".">>
T_ValidationFailed ==
    <<"V", "a", "l", "i", "d", "a", "t", "i", "o", "n", " ", "f", "a", "i",
      "l", "e", "d", ":", " ">>
T_Required ==
    <<"R", "e", "q", "u", "i", "r", "e", "d">>
T_TooShort ==
    <<"S", "t", "r", "i", "n", "g", " ", "m", "u", "s", "t", " ", "c", "o",
      "n", "t", "a", "i", "n", " ", "a", "t", " ", "l", "e", "a", "s", "t",
      " ", "1", " ", "c", "h", "a", "r", "a", "c", "t", "e", "r", "(", "s",
      ")">>
T_TooLong ==
    <<"S", "t", "r", "i", "n", "g", " ", "m", "u", "s", "t", " ", "c", "o",
      "n", "t", "a", "i", "n", " ", "a", "t", " ", "m", "o", "s", "t", " ",
      "5", "0", "0", " ", "c", "h", "a", "r", "a", "c", "t", "e", "r", "(",
      "s", ")">>
T_GoogleMapsApiError ==
    <<"G", "o", "o", "g", "l", "e", " ", "M", "a", "p", "s", " ", "A", "P",
      "I", " ", "e", "r", "r", "o", "r", ":", " ">>
T_NetworkError ==
    <<"N", "e", "t", "w", "o", "r", "k", " ", "e", "r", "r", "o", "r", " ",
      "c", "o", "n", "n", "e", "c", "t", "i", "n", "g", " ", "t", "o", " ",
      "G", "o", "o", "g", "l", "e", " ", "M", "a", "p", "s", " ", "A", "P",
      "I", ":", " ">>
T_UnexpectedError ==
    <<"U", "n", "e", "x", "p", "e", "c", "t", "e", "d", " ", "e", "r", "r",
      "o", "r", ":", " ">>
T_network ==
    <<"n", "e", "t", "w", "o", "r", "k">>
\* JSON.stringify({places: [], next_page_token: undefined}, null, 2)
T_NoPlaces ==
    <<"{", LF, " ", " ", "\"", "p", "l", "a", "c", "e", "s", "\"", ":",
      " ", "[", "]", LF, "}">>

RegisteredTools == { T_places_search_text }
ToolNames == RegisteredTools \cup { T_nope }

\* The arguments of the invocations: a query, no query, an empty query.
ToolArgs ==
    { Obj(<<K_query>>, <<Str(<<"b">>)>>),
      Obj(<<>>, <<>>),
      Obj(<<K_query>>, <<Str(<<>>)>>) }

\* The outcomes of the upstream HTTP call of an invocation.
ToolOutcomes ==
    { [ok |-> TRUE, error |-> NoError],
      [ok |-> FALSE, error |-> HttpError(500, NoHeader)],
      [ok |-> FALSE, error |-> HttpError(429, 5)] }

\* validateInput(PlacesSearchTextSchema, args) for arguments whose only
\* property, if any, is a string query: whether the schema accepts them,
\* and the message and the path of the first issue when it does not.
validateInput(args) ==
    IF ~HasKey(args, K_query)
    THEN [ok |-> FALSE, message |-> T_Required, field |-> K_query]
    ELSE IF Len(Get(args, K_query).s) < 1
    THEN [ok |-> FALSE, message |-> T_TooShort, field |-> K_query]
    ELSE IF Len(Get(args, K_query).s) > 500
    THEN [ok |-> FALSE, message |-> T_TooLong, field |-> K_query]
    ELSE [ok |-> TRUE, message |-> <<>>, field |-> <<>>]

\* The params createPlacesSearchTextHandler builds from the validated input.
SearchTextParams(input) ==
    Obj(<<K_textQuery, K_languageCode, K_regionCode, K_maxResultCount>>,
        <<Get(input, K_query), Undefined, Undefined, IntVal(20)>>)

\* What handleCallTool returns for a response without places.
CallToolResult ==
    Obj(<<K_content>>,
        <<Arr(<<Obj(<<K_type, K_text>>, <<Str(K_text), Str(T_NoPlaces)>>)>>)>>)

\* new Error(`Unknown tool: ${name}`)
UnknownToolError(name) == ErrorValue(T_UnknownTool \o name)

\* The Error checkLimit throws:
\* new Error(`Rate limit exceeded. Wait ${Math.ceil(waitTime)}ms before retrying.`)
RateLimitExceeded(wait) ==
    ErrorValue(T_RateLimitExceeded \o NumberToText(wait) \o T_msBeforeRetrying)

\* new ValidationError(`Validation failed: ${message}`, field)
ValidationError(message, field) ==
    MCPServerError(T_VALIDATION_ERROR, T_ValidationFailed \o message,
                   Obj(<<T_field>>, <<Str(field)>>))

\* new RateLimitError(message, retryAfter)
RateLimitError(message, retryAfter) ==
    MCPServerError(T_RATE_LIMIT_ERROR, message, Obj(<<K_retryAfter>>, <<retryAfter>>))

\* new GoogleMapsAPIError(message, status, endpoint, context)
GoogleMapsAPIError(message, status, endpoint, context) ==
    MCPServerError(T_GOOGLE_MAPS_API_ERROR, message,
                   Obj((IF context.t = "object" THEN context.k ELSE <<>>)
                           \o <<K_endpoint, K_status>>,
                       (IF context.t = "object" THEN context.v ELSE <<>>)
                           \o <<Str(endpoint), status>>))

\* The value handleGoogleMapsError(raw, endpoint) throws, for an upstream
\* response without a body.  parseInt of an unreadable retry-after header
\* is NaN, which JSON.stringify writes as null.
ThrownByClient(raw, endpoint) ==
    IF raw.hasResponse
    THEN LET message == T_GoogleMapsApiError \o NumberToText(raw.status)
         IN  IF raw.status = 429
             THEN RateLimitError(message,
                                 IF raw.retryAfter = NoHeader THEN Undefined
                                 ELSE IF raw.retryAfter = NaNHeader THEN Null
                                 ELSE IntVal(raw.retryAfter))
             ELSE GoogleMapsAPIError(message, IntVal(raw.status), endpoint,
                                     Obj(<<K_response_data>>, <<Undefined>>))
    ELSE IF raw.code \in {"ECONNREFUSED", "ENOTFOUND"}
    THEN GoogleMapsAPIError(T_NetworkError \o T_network, Undefined, endpoint, Undefined)
    ELSE GoogleMapsAPIError(T_UnexpectedError \o T_network, Undefined, endpoint, Undefined)

\* What settled keeps of an error thrown before the client is called.
ToolError(name, code, message) ==
    [name |-> name, hasResponse |-> FALSE, status |-> 0, retryAfter |-> NoHeader,
     code |-> code, message |-> message]

\* A stage the invocation n went through, whether it succeeded, and the
\* wait of the rate limiter when it refused.
Stage(n, stage, ok, wait) == [call |-> n, stage |-> stage, ok |-> ok, wait |-> wait]

\* The refill rates of the server's configuration used by the model.
ToolRateSet == {2, 3}

\* The times between the events of the model, in milliseconds.
ToolTickSet == {500}

InitTool ==
    /\ stream = <<>>
    /\ InitTransport
    /\ wrapped = TRUE
    /\ InitClientIdle
    /\ now = 0
    /\ enabled \in BOOLEAN
    /\ ttlMs = DefaultTtl
    /\ reads = <<>>
    /\ capacity \in 1..MaxCapacity
    /\ refillRate \in ToolRateSet
    /\ buckets = NoBuckets
    /\ checks = <<>>
    /\ steps = <<>>
    /\ keyed = <<>>

\* handleMessage's catch clause writes the error Response of invocation n.
Rejects(n, error, thrown) ==
    /\ rpc' = "thrown"
    /\ settled' = [ok |-> FALSE, value |-> NoValue, error |-> error]
    /\ stdout' = Append(stdout, [by |-> n, output |-> ErrorResponse(IntVal(n), thrown)])
    /\ upstream' = <<>>
    /\ delays' = <<>>
    /\ UNCHANGED <<params, attempt, cache>>

\* await this.rateLimiter.checkLimit(`tool:${name}`)
Limits(name, limit) ==
    /\ buckets' = limit.buckets
    /\ checks' = Append(checks, [key |-> T_tool \o name, at |-> now,
                                 ok |-> limit.ok, wait |-> limit.wait])

\* A handleCallTool that validates the arguments and looks the result up
\* in the cache before it asks the rate limiter.
ToolCall_ValidateFirst(name, args) ==
    /\ rpc \in {"idle", "returned", "thrown"}
    /\ callNo < MaxToolCalls
    /\ callNo' = callNo + 1
    /\ LET n == callNo + 1
           limit == CheckLimit(T_tool \o name, 1)
           input == validateInput(args)
           p == SearchTextParams(args)
           hit == wrapped /\ Truthy(CacheGet(createKey(T_places_search_text, p)).value)
       IN  IF name \notin RegisteredTools
           THEN /\ steps' = Append(steps, Stage(n, "lookup", FALSE, 0))
                /\ Rejects(n, ToolError("Error", "", "Unknown tool"), UnknownToolError(name))
                /\ UNCHANGED <<buckets, checks>>
           ELSE IF ~input.ok
           THEN /\ steps' = steps \o <<Stage(n, "lookup", TRUE, 0),
                                       Stage(n, "validate", FALSE, 0)>>
                /\ Rejects(n, ToolError("MCPServerError", "VALIDATION_ERROR", "Validation failed"),
                           ValidationError(input.message, input.field))
                /\ UNCHANGED <<buckets, checks>>
           ELSE IF hit
           THEN /\ steps' = steps \o <<Stage(n, "lookup", TRUE, 0),
                                       Stage(n, "validate", TRUE, 0),
                                       Stage(n, "cache-lookup", TRUE, 0)>>
                /\ ClientEnter(p)
                /\ stdout' = Append(stdout, [by |-> n,
                                             output |-> sendResponse(IntVal(n), CallToolResult)])
                /\ UNCHANGED <<buckets, checks>>
           ELSE IF ~limit.ok
           THEN /\ steps' = steps \o <<Stage(n, "lookup", TRUE, 0),
                                       Stage(n, "validate", TRUE, 0),
                                       Stage(n, "cache-lookup", FALSE, 0),
                                       Stage(n, "rate-limit", FALSE, limit.wait)>>
                /\ Limits(name, limit)
                /\ Rejects(n, ToolError("Error", "", "Rate limit exceeded"),
                           RateLimitExceeded(limit.wait))
           ELSE /\ steps' = steps \o <<Stage(n, "lookup", TRUE, 0),
                                       Stage(n, "validate", TRUE, 0),
                                       Stage(n, "cache-lookup", FALSE, 0),
                                       Stage(n, "rate-limit", TRUE, 0),
                                       Stage(n, "retry", TRUE, 0)>>
                /\ Limits(name, limit)
                /\ ClientEnter(p)
                /\ UNCHANGED stdout
    /\ UNCHANGED <<stream, pos, buffer, log, pending, exitCode, options, wrapped,
                   now, kvars, capacity, refillRate, keyed>>

\* A handleCallTool that asks the rate limiter before it looks the tool up.
ToolCall_LimitFirst(name, args) ==
    /\ rpc \in {"idle", "returned", "thrown"}
    /\ callNo < MaxToolCalls
    /\ callNo' = callNo + 1
    /\ LET n == callNo + 1
           limit == CheckLimit(T_tool \o name, 1)
           input == validateInput(args)
           p == SearchTextParams(args)
           hit == wrapped /\ Truthy(CacheGet(createKey(T_places_search_text, p)).value)
       IN  IF name \notin RegisteredTools
           THEN /\ steps' = Append(steps, Stage(n, "lookup", FALSE, 0))
                /\ Rejects(n, ToolError("Error", "", "Unknown tool"), UnknownToolError(name))
                /\ Limits(name, limit)
           ELSE IF ~limit.ok
           THEN /\ steps' = steps \o <<Stage(n, "lookup", TRUE, 0),
                                       Stage(n, "rate-limit", FALSE, limit.wait)>>
                /\ Limits(name, limit)
                /\ Rejects(n, ToolError("Error", "", "Rate limit exceeded"),
                           RateLimitExceeded(limit.wait))
           ELSE IF ~input.ok
           THEN /\ steps' = steps \o <<Stage(n, "lookup", TRUE, 0),
                                       Stage(n, "rate-limit", TRUE, 0),
                                       Stage(n, "validate", FALSE, 0)>>
                /\ Limits(name, limit)
                /\ Rejects(n, ToolError("MCPServerError", "VALIDATION_ERROR", "Validation failed"),
                           ValidationError(input.message, input.field))
           ELSE /\ steps' = steps \o <<Stage(n, "lookup", TRUE, 0),
                                       Stage(n, "rate-limit", TRUE, 0),
                                       Stage(n, "validate", TRUE, 0),
                                       Stage(n, "cache-lookup", hit, 0)>>
                                 \o (IF hit THEN <<>> ELSE <<Stage(n, "retry", TRUE, 0)>>)
                /\ Limits(name, limit)
                /\ ClientEnter(p)
                /\ stdout' = IF hit
                             THEN Append(stdout, [by |-> n,
                                                  output |-> sendResponse(IntVal(n), CallToolResult)])
                             ELSE stdout
    /\ UNCHANGED <<stream, pos, buffer, log, pending, exitCode, options, wrapped,
                   now, kvars, capacity, refillRate, keyed>>

\* A call_tool Request arrives: handleCallTool, the tool handler and the
\* method of the client up to the upstream call, a stretch without timers
\* or input.  The Response is written when the stretch ends the invocation.
ToolCall(name, args) ==
    /\ rpc \in {"idle", "returned", "thrown"}
    /\ callNo < MaxToolCalls
    /\ callNo' = callNo + 1
    /\ LET n == callNo + 1
           limit == CheckLimit(T_tool \o name, 1)
           input == validateInput(args)
           p == SearchTextParams(args)
           hit == wrapped /\ Truthy(CacheGet(createKey(T_places_search_text, p)).value)
       IN  IF name \notin RegisteredTools
           THEN /\ steps' = Append(steps, Stage(n, "lookup", FALSE, 0))
                /\ Rejects(n, ToolError("Error", "", "Unknown tool"), UnknownToolError(name))
                /\ UNCHANGED <<buckets, checks>>
           ELSE IF ~limit.ok
           THEN /\ steps' = steps \o <<Stage(n, "lookup", TRUE, 0),
                                       Stage(n, "rate-limit", FALSE, limit.wait)>>
                /\ Limits(name, limit)
                /\ Rejects(n, ToolError("Error", "", "Rate limit exceeded"),
                           RateLimitExceeded(limit.wait))
           ELSE IF ~input.ok
           THEN /\ steps' = steps \o <<Stage(n, "lookup", TRUE, 0),
                                       Stage(n, "rate-limit", TRUE, 0),
                                       Stage(n, "validate", FALSE, 0)>>
                /\ Limits(name, limit)
                /\ Rejects(n, ToolError("MCPServerError", "VALIDATION_ERROR", "Validation failed"),
                           ValidationError(input.message, input.field))
           ELSE /\ steps' = steps \o <<Stage(n, "lookup", TRUE, 0),
                                       Stage(n, "rate-limit", TRUE, 0),
                                       Stage(n, "validate", TRUE, 0),
                                       Stage(n, "cache-lookup", hit, 0)>>
                                 \o (IF hit THEN <<>> ELSE <<Stage(n, "retry", TRUE, 0)>>)
                /\ Limits(name, limit)
                /\ ClientEnter(p)
                /\ stdout' = IF hit
                             THEN Append(stdout, [by |-> n,
                                                  output |-> sendResponse(IntVal(n), CallToolResult)])
                             ELSE stdout
    /\ UNCHANGED <<stream, pos, buffer, log, pending, exitCode, options, wrapped,
                   now, kvars, capacity, refillRate, keyed>>

\* The upstream call of the invocation settles: withRetry returns or throws
\* (what handleGoogleMapsError throws is never retried), the client stores
\* the result, and the Response is written.
ToolSettle(outcome) ==
    /\ UpstreamResult(outcome, 0)
    /\ LET n == callNo
           thrown == ThrowsNow(options, attempt, OperationError(wrapped, outcome.error))
       IN  /\ steps' = steps \o <<Stage(n, "upstream", outcome.ok, 0)>>
                             \o (IF outcome.ok THEN <<Stage(n, "cache-store", TRUE, 0)>> ELSE <<>>)
           /\ stdout' = IF outcome.ok
                        THEN Append(stdout, [by |-> n,
                                             output |-> sendResponse(IntVal(n), CallToolResult)])
                        ELSE IF thrown
                        THEN Append(stdout,
                                    [by |-> n,
                                     output |-> ErrorResponse(IntVal(n),
                                                              ThrownByClient(outcome.error,
                                                                             T_places_search_text))])
                        ELSE stdout
    /\ UNCHANGED <<stream, pos, buffer, log, pending, exitCode,
                   now, kvars, lvars, keyed>>

NextTool ==
    \/ \E d \in ToolTickSet : Tick(d)
    \/ \E name \in ToolNames, args \in ToolArgs : ToolCall(name, args)
    \/ \E outcome \in ToolOutcomes : ToolSettle(outcome)

SpecTool == InitTool /\ [][NextTool]_vars

(***************************************************************************)
(* call_tool Requests in flight together: every Request of a chunk is      *)
(* dispatched before the handler of an earlier one continues, and the      *)
(* upstream calls of the invocations settle in any order.                  *)
(***************************************************************************)
\* The arguments of the invocations: a query the schema accepts.
BurstArgs == { Obj(<<K_query>>, <<Str(<<"b">>)>>) }

\* The outcomes of the upstream HTTP call of an invocation.
BurstOutcomes ==
    { [ok |-> TRUE, error |-> NoError],
      [ok |-> FALSE, error |-> HttpError(500, NoHeader)] }

InitBurst ==
    /\ stream = <<>>
    /\ InitTransport
    /\ wrapped = TRUE
    /\ InitClientIdle
    /\ now = 0
    /\ enabled = TRUE
    /\ ttlMs = DefaultTtl
    /\ reads = <<>>
    /\ capacity \in 1..MaxCapacity
    /\ refillRate \in ToolRateSet
    /\ buckets = NoBuckets
    /\ checks = <<>>
    /\ steps = <<>>
    /\ keyed = <<>>

\* What checks keeps of a checkLimit: the invocation, the key, the reading
\* of the clock, the tokens the bucket held after its refill (in
\* thousandths of a token), and whether consume took one.
BurstCheck(n, name, limit) ==
    LET key == T_tool \o name
        bucket == IF key \in DOMAIN buckets THEN buckets[key] ELSE NewBucket
    IN  [call |-> n, key |-> key, at |-> now, held |-> Refill(bucket).tokens,
         ok |-> limit.ok, wait |-> limit.wait]

\* handleMessage's catch clause writes the error Response of invocation n.
BurstRejects(n, thrown) ==
    /\ stdout' = Append(stdout, [by |-> n, output |-> ErrorResponse(IntVal(n), thrown)])
    /\ UNCHANGED <<pending, cache>>

\* handleMessage for a call_tool Request: handleCallTool runs up to the
\* await of checkLimit, whose body has run by then, while the Request is
\* dispatched; what follows touches neither the clock nor the buckets and
\* ends with the Response or at the upstream call.  limit is what
\* checkLimit did.
BurstEnter(name, args, limit) ==
    /\ callNo < MaxBurst
    /\ callNo' = callNo + 1
    /\ log' = Append(log, [kind |-> "call_tool", name |-> name, args |-> args])
    /\ LET n == callNo + 1
           input == validateInput(args)
           key == createKey(T_places_search_text, SearchTextParams(args))
           cached == CacheGet(key)
       IN  IF name \notin RegisteredTools
           THEN /\ steps' = Append(steps, Stage(n, "lookup", FALSE, 0))
                /\ BurstRejects(n, UnknownToolError(name))
                /\ UNCHANGED <<buckets, checks>>
           ELSE /\ buckets' = limit.buckets
                /\ checks' = Append(checks, BurstCheck(n, name, limit))
                /\ IF ~limit.ok
                   THEN /\ steps' = steps \o <<Stage(n, "lookup", TRUE, 0),
                                               Stage(n, "rate-limit", FALSE, limit.wait)>>
                        /\ BurstRejects(n, RateLimitExceeded(limit.wait))
                   ELSE IF ~input.ok
                   THEN /\ steps' = steps \o <<Stage(n, "lookup", TRUE, 0),
                                               Stage(n, "rate-limit", TRUE, 0),
                                               Stage(n, "validate", FALSE, 0)>>
                        /\ BurstRejects(n, ValidationError(input.message, input.field))
                   ELSE /\ steps' = steps \o <<Stage(n, "lookup", TRUE, 0),
                                               Stage(n, "rate-limit", TRUE, 0),
                                               Stage(n, "validate", TRUE, 0),
                                               Stage(n, "cache-lookup", Truthy(cached.value), 0)>>
                        /\ cache' = cached.cache
                        /\ IF Truthy(cached.value)
                           THEN /\ stdout' = Append(stdout,
                                       [by |-> n,
                                        output |-> sendResponse(IntVal(n), CallToolResult)])
                                /\ UNCHANGED pending
                           ELSE /\ pending' = pending \cup {n}
                                /\ UNCHANGED stdout
    /\ UNCHANGED <<stream, pos, buffer, exitCode, options, wrapped, params, rpc, attempt,
                   upstream, delays, settled, now, kvars, capacity, refillRate, keyed>>

\* A checkLimit whose write to the bucket is lost while other invocations
\* are in flight.
BurstCall_LostUpdate(name, args) ==
    LET limit == CheckLimit(T_tool \o name, 1)
    IN  BurstEnter(name, args,
                   IF pending # {} /\ T_tool \o name \in DOMAIN buckets
                   THEN [limit EXCEPT !.buckets = buckets]
                   ELSE limit)

\* A call_tool Request is dispatched.
BurstCall(name, args) == BurstEnter(name, args, CheckLimit(T_tool \o name, 1))

\* The upstream call of invocation n settles: the client stores the result
\* of a success, and the Response is written.
BurstSettle(n, outcome) ==
    /\ n \in pending
    /\ pending' = pending \ {n}
    /\ steps' = steps \o <<Stage(n, "upstream", outcome.ok, 0)>>
                      \o (IF outcome.ok THEN <<Stage(n, "cache-store", TRUE, 0)>> ELSE <<>>)
    /\ LET p == SearchTextParams(log[n].args)
       IN  cache' = IF outcome.ok
                    THEN CacheSet(createKey(T_places_search_text, p), ResponseData(p))
                    ELSE cache
    /\ stdout' = Append(stdout,
                        [by |-> n,
                         output |-> IF outcome.ok
                                    THEN sendResponse(IntVal(n), CallToolResult)
                                    ELSE ErrorResponse(IntVal(n),
                                                       ThrownByClient(outcome.error,
                                                                      T_places_search_text))])
    /\ UNCHANGED <<stream, pos, buffer, log, exitCode, options, wrapped, params, rpc,
                   attempt, upstream, delays, settled, callNo, now, kvars, lvars, keyed>>

NextBurst ==
    \/ \E d \in ToolTickSet : Tick(d)
    \/ \E name \in RegisteredTools, args \in BurstArgs : BurstCall(name, args)
    \/ \E n \in pending, outcome \in BurstOutcomes : BurstSettle(n, outcome)

SpecBurst == InitBurst /\ [][NextBurst]_vars

(***************************************************************************)
(* Reading the state.                                                      *)
(***************************************************************************)
\* The JSON value a write to stdout carries.
Written(j) ==
    LET output == stdout[j].output
    IN  JSONparse(SliceFrom(output, contentLengthMatch(output).length)).val

ErrorOf(j) == Get(Written(j), K_error)

\* The writes made for the log entry i.
ResponsesFor(i) == {j \in 1..Len(stdout) : stdout[j].by = i}

IsMessage(i) == log[i].kind = "message"
IsRequest(i) == IsMessage(i) /\ HasKey(log[i].message, K_id)
IsNotification(i) == IsMessage(i) /\ ~InThrows(log[i].message) /\ ~HasKey(log[i].message, K_id)
RequestIdx == {i \in 1..Len(log) : IsRequest(i)}
IdOf(i) == Get(log[i].message, K_id)
MethodOf(i) == Get(log[i].message, K_method)
Registered(i) == HasHandler(messageHandlers, log[i].message)
Settled(i) == IsRequest(i) /\ Registered(i) /\ i \notin pending
OutcomeOf(i) == handler(Get(log[i].message, K_params))

(***************************************************************************)
(* C1.  No input terminates the process abnormally: the exit with code 1   *)
(* of the unhandled-rejection and uncaught-exception handlers is never     *)
(* reached, whatever valid JSON value a frame carries.                     *)
(***************************************************************************)
C1_NoAbnormalExit == exitCode # 1

(***************************************************************************)
(* C2.  A Request whose method is unregistered or whose handler settled    *)
(* has exactly one frame written for it, and a Request still waiting for   *)
(* its handler has none.                                                   *)
(***************************************************************************)
C2_ExactlyOneResponse ==
    \A i \in RequestIdx :
        Cardinality(ResponsesFor(i)) = IF i \in pending THEN 0 ELSE 1

\* Two Requests are answered, one by its settled handler and one for its
\* unregistered method.
C2_Witness ==
    \E i, k \in RequestIdx :
        /\ Settled(i) /\ Cardinality(ResponsesFor(i)) = 1
        /\ ~Registered(k) /\ Cardinality(ResponsesFor(k)) = 1

(***************************************************************************)
(* C3.  Id correlation: when the Requests received carry distinct ids,     *)
(* every Response written for a Request carries the id of exactly one of   *)
(* them.                                                                   *)
(***************************************************************************)
DistinctIds == \A i, k \in RequestIdx : i # k => IdOf(i) # IdOf(k)

C3_IdCorrelation ==
    DistinctIds =>
        \A j \in 1..Len(stdout) :
            stdout[j].by \in RequestIdx =>
                Cardinality({i \in RequestIdx : IdOf(i) = Get(Written(j), K_id)}) = 1

(***************************************************************************)
(* C4.  Bytes in front of a frame that are not a Content-Length header are *)
(* answered with a parse-error Response and the valid frame behind them is *)
(* dispatched, once all input has been delivered.                          *)
(***************************************************************************)
C4_MalformedHeaderLocalized ==
    (/\ pos = Len(stream)
     /\ \E p \in MalformedFrames : StartsWithAt(stream, 1, p))
    => /\ \E j \in 1..Len(stdout) : Get(ErrorOf(j), K_code) = IntVal(-32700)
       /\ \E i \in 1..Len(log) :
            IsMessage(i) /\ log[i].message = Request(IntVal(1), M_call_tool)

(***************************************************************************)
(* C5.  A complete frame whose payload is not valid JSON is answered by    *)
(* exactly one Response with id null and error code -32700, and the frame  *)
(* that follows it is dispatched.                                          *)
(***************************************************************************)
C5_ParseErrorResponse ==
    /\ \A i \in 1..Len(log) :
        log[i].kind = "parseError" =>
            /\ Cardinality(ResponsesFor(i)) = 1
            /\ \A j \in ResponsesFor(i) :
                /\ Get(Written(j), K_id) = Null
                /\ Get(ErrorOf(j), K_code) = IntVal(-32700)
    /\ \A bad \in BadJsonFrames, good \in RegularFrames :
        (stream = bad \o good /\ pos = Len(stream)) =>
            /\ Len(log) = 2 /\ IsMessage(2)
            /\ buffer = <<>>

(***************************************************************************)
(* C6.  Framing round trip: the server's own framing of a Message, fed to  *)
(* the incoming framer, yields exactly that Message and leaves the buffer  *)
(* empty.                                                                  *)
(***************************************************************************)
C6_FramingRoundTrip ==
    \A m \in ObjectMessages :
        (stream = sendMessage(m) /\ pos = Len(stream)) =>
            /\ Len(log) = 1
            /\ IsMessage(1)
            /\ log[1].message = m
            /\ buffer = <<>>

(***************************************************************************)
(* C7.  Partial-frame stability: once the process takes no more input,     *)
(* what it dispatched and the parse errors it reported are those of the    *)
(* whole stream delivered as one chunk; and a buffer that holds a header   *)
(* with an incomplete payload is what was received since the last frame.   *)
(***************************************************************************)
C7_PartialFrameStability ==
    /\ (exitCode # Running \/ pos = Len(stream)) => log = processBuffer(stream).events
    /\ LET m == contentLengthMatch(buffer)
       IN  (m.matched /\ Len(buffer) < m.length + parseInt(m.digits)) =>
               buffer = SubSeq(stream, pos - Len(buffer) + 1, pos)

(***************************************************************************)
(* C8.  Unknown method: a Request naming an unregistered method is         *)
(* answered with its own id, code -32601, 'Method not found' and the       *)
(* method name in error.data.method; a Notification without a registered   *)
(* handler produces no output.                                             *)
(***************************************************************************)
C8_UnknownMethod ==
    /\ \A i \in RequestIdx :
        (MethodOf(i).t = "string" /\ ~Registered(i)) =>
            /\ Cardinality(ResponsesFor(i)) = 1
            /\ \A j \in ResponsesFor(i) :
                /\ Get(Written(j), K_id) = IdOf(i)
                /\ Get(ErrorOf(j), K_code) = IntVal(-32601)
                /\ Get(ErrorOf(j), K_message) = Str(MethodNotFoundText)
                /\ Get(Get(ErrorOf(j), K_data), K_method) = MethodOf(i)
    /\ \A i \in 1..Len(log) :
        (IsNotification(i) /\ ~HasHandler(notificationHandlers, log[i].message)) =>
            ResponsesFor(i) = {}

(***************************************************************************)
(* C10.  The Response to a failed handler.  As claimed: any thrown value   *)
(* with a string code gives -32000 and data {code, context}; any other     *)
(* gives -32603 with its message text, or 'Internal error' without one.    *)
(***************************************************************************)
HasStringCode(e) == HasKey(e.val, K_code) /\ Get(e.val, K_code).t = "string"

\* The fields of the Response j are those of a server error for e.
IsServerError(j, e) ==
    /\ Get(ErrorOf(j), K_code) = IntVal(-32000)
    /\ Get(Get(ErrorOf(j), K_data), K_code) = Get(e.val, K_code)
    /\ Get(Get(ErrorOf(j), K_data), K_context) = Get(e.val, K_context)

\* The fields of the Response j are those of an internal error with this text.
IsInternalError(j, text) ==
    /\ Get(ErrorOf(j), K_code) = IntVal(-32603)
    /\ Get(ErrorOf(j), K_message) = Str(text)
    /\ ~HasKey(ErrorOf(j), K_data)

C10_AsClaimed ==
    \A i \in RequestIdx : \A j \in ResponsesFor(i) :
        (Settled(i) /\ OutcomeOf(i).kind = "reject") =>
            LET e == OutcomeOf(i).thrown
            IN  IF HasStringCode(e) THEN IsServerError(j, e)
                ELSE IsInternalError(j, IF Get(e.val, K_message).t = "string"
                                        THEN Get(e.val, K_message).s
                                        ELSE InternalErrorText)

(***************************************************************************)
(* C10 as amended.  An Error instance with a string code gives -32000,     *)
(* its message and data {code, context}; any other Error instance gives    *)
(* -32603 and its message; a thrown value that is not an Error instance    *)
(* gives -32603, 'Internal error' and no data, whatever fields it has.     *)
(***************************************************************************)
C10_ErrorShape ==
    \A i \in RequestIdx : \A j \in ResponsesFor(i) :
        (Settled(i) /\ OutcomeOf(i).kind = "reject") =>
            LET e == OutcomeOf(i).thrown
            IN  IF e.isError /\ HasStringCode(e)
                THEN /\ IsServerError(j, e)
                     /\ Get(ErrorOf(j), K_message) = Get(e.val, K_message)
                ELSE IF e.isError THEN IsInternalError(j, Get(e.val, K_message).s)
                ELSE IsInternalError(j, InternalErrorText)

\* A handler threw a value that is not an Error and has a string code, and
\* the Response was written.
C10_Witness ==
    \E i \in RequestIdx :
        /\ Settled(i) /\ ResponsesFor(i) # {}
        /\ OutcomeOf(i).kind = "reject"
        /\ ~OutcomeOf(i).thrown.isError
        /\ HasStringCode(OutcomeOf(i).thrown)

(***************************************************************************)
(* C9.  An upstream HTTP call of the client that fails only with retryable *)
(* conditions is attempted maxAttempts times before its failure is         *)
(* surfaced.                                                               *)
(***************************************************************************)
C9_UpstreamRetried ==
    (/\ wrapped
     /\ rpc = "thrown"
     /\ \A k \in 1..Len(upstream) : retryCondition(upstream[k].error))
    => Len(upstream) = options.maxAttempts

(***************************************************************************)
(* C13.  Retry exhaustion: withRetry on an operation whose every failure   *)
(* is accepted by retryCondition invokes it exactly maxAttempts times,     *)
(* sleeps maxAttempts - 1 times, and throws the failure of the last        *)
(* attempt unchanged; it never invokes it more than maxAttempts times.     *)
(***************************************************************************)
C13_RetryExhaustion ==
    /\ Len(upstream) <= options.maxAttempts
    /\ (/\ rpc = "thrown"
        /\ \A k \in 1..Len(upstream) :
              ~upstream[k].ok /\ ShouldRetry(options, upstream[k].error))
       => /\ Len(upstream) = options.maxAttempts
          /\ Len(delays) = options.maxAttempts - 1
          /\ settled.error = upstream[Len(upstream)].error

\* withRetry gave up after three retryable failures.
C13_Witness ==
    /\ rpc = "thrown"
    /\ options.maxAttempts = 3
    /\ Len(upstream) = 3
    /\ \A k \in 1..3 : ShouldRetry(options, upstream[k].error)

(***************************************************************************)
(* C14.  Retry-After honoring: the delay slept after a failed attempt that *)
(* carries a Retry-After of s seconds is at least s * 1000 ms.             *)
(***************************************************************************)
C14_RetryAfterHonored ==
    \A k \in 1..Len(delays) :
        (upstream[k].error.hasResponse /\ upstream[k].error.retryAfter >= 0)
            => delays[k] >= upstream[k].error.retryAfter * 1000

\* A Retry-After of 20 s was slept although maxDelay is 1.5 s.
C14_Witness ==
    \E k \in 1..Len(delays) :
        /\ upstream[k].error.retryAfter = 20
        /\ options.maxDelay = 1500
        /\ delays[k] = 20000

(***************************************************************************)
(* C16.  Cache key determinism: parameter objects that differ only in the  *)
(* insertion order of their properties, at the top level or inside nested  *)
(* objects, get the same cache key.                                        *)
(***************************************************************************)
C16_KeyDeterminism ==
    \A i, j \in 1..Len(keyed) :
        SameLogical(keyed[i].params, keyed[j].params) => keyed[i].key = keyed[j].key

\* The positions in checks of the checkLimit calls for key, in order.
RECURSIVE ChecksOf(_, _)
ChecksOf(key, i) ==
    IF i > Len(checks) THEN <<>>
    ELSE (IF checks[i].key = key THEN <<i>> ELSE <<>>) \o ChecksOf(key, i + 1)

(***************************************************************************)
(* C15.  Rate limiter monotonicity: the first capacity checks of a key     *)
(* made at one instant all succeed; one more check at that instant fails   *)
(* with a wait estimate > 0; the check that follows a failed one by at     *)
(* least 1000 / refillRate ms succeeds.                                    *)
(***************************************************************************)
C15_LimiterMonotone ==
    \A key \in LimiterKeys :
        LET idx == ChecksOf(key, 1)
            SameInstant(n) == \A m \in 1..n : checks[idx[m]].at = checks[idx[1]].at
        IN  /\ \A n \in 1..Len(idx) :
                (n <= capacity /\ SameInstant(n)) => checks[idx[n]].ok
            /\ (Len(idx) > capacity /\ SameInstant(capacity + 1))
                => /\ ~checks[idx[capacity + 1]].ok
                   /\ checks[idx[capacity + 1]].wait > 0
            /\ \A n \in 2..Len(idx) :
                (/\ ~checks[idx[n - 1]].ok
                 /\ (checks[idx[n]].at - checks[idx[n - 1]].at) * refillRate >= Milli)
                => checks[idx[n]].ok

\* A bucket of two tokens was emptied at one instant, refused the third
\* check, and granted the fourth after the wait.
C15_Witness ==
    \E key \in LimiterKeys :
        LET idx == ChecksOf(key, 1)
        IN  /\ capacity = 2
            /\ Len(idx) = 4
            /\ \A m \in 1..3 : checks[idx[m]].at = checks[idx[1]].at
            /\ checks[idx[2]].ok /\ ~checks[idx[3]].ok /\ checks[idx[3]].wait > 0
            /\ (checks[idx[4]].at - checks[idx[3]].at) * refillRate >= Milli
            /\ checks[idx[4]].ok

\* What the claims say the entry of key is after the first n direct calls:
\* [present, start, value], start the time of the last set, or of the last
\* get or has that found the entry within its time-to-live.
RECURSIVE EntryAfter(_, _)
EntryAfter(key, n) ==
    IF n = 0 THEN [present |-> FALSE, start |-> 0, value |-> NoValue]
    ELSE LET before == EntryAfter(key, n - 1)
             r == reads[n]
             live == before.present /\ r.at - before.start <= ttlMs
         IN  IF r.op = "clear" THEN [before EXCEPT !.present = FALSE]
             ELSE IF r.key # key THEN before
             ELSE IF r.op = "set" THEN [present |-> TRUE, start |-> r.at, value |-> r.given]
             ELSE IF r.op = "delete" THEN [before EXCEPT !.present = FALSE]
             ELSE IF live THEN [before EXCEPT !.start = r.at]
             ELSE before

LiveBefore(key, n) ==
    LET before == EntryAfter(key, n - 1)
    IN  before.present /\ reads[n].at - before.start <= ttlMs

(***************************************************************************)
(* C18.  Sliding expiry: get and has treat an entry as absent when more    *)
(* than the time-to-live has passed since it was last set, or last found   *)
(* by get or has; otherwise get returns its value and has returns true,    *)
(* and the entry's time-to-live starts again.                              *)
(***************************************************************************)
C18_SlidingExpiry ==
    enabled =>
        \A n \in 1..Len(reads) :
            /\ reads[n].op = "get" =>
                  reads[n].value = IF LiveBefore(reads[n].key, n)
                                   THEN EntryAfter(reads[n].key, n - 1).value
                                   ELSE NoValue
            /\ reads[n].op = "has" => reads[n].flag = LiveBefore(reads[n].key, n)

\* An entry set at 0 with a time-to-live of 500 ms was read at 500 and is
\* still found at 1000.
C18_Witness ==
    /\ enabled /\ ttlMs = 500 /\ Len(reads) = 3
    /\ reads[1].op = "set" /\ reads[1].at = 0
    /\ reads[2].op = "get" /\ reads[2].at = 500 /\ reads[2].value = reads[1].given
    /\ reads[3].op \in {"get", "has"} /\ reads[3].at = 1000
    /\ reads[3].key = reads[1].key /\ reads[2].key = reads[1].key
    /\ (reads[3].flag \/ reads[3].value = reads[1].given)

(***************************************************************************)
(* C19.  A disabled cache: get returns a miss, has and delete return       *)
(* false, set stores nothing, the size stays 0, and every call of the      *)
(* client's cached method that returned made its upstream call.            *)
(***************************************************************************)
C19_DisabledCache ==
    ~enabled =>
        /\ CacheSize = 0
        /\ \A n \in 1..Len(reads) :
            /\ reads[n].size = 0
            /\ reads[n].op = "get" => reads[n].value = NoValue
            /\ reads[n].op \in {"has", "delete"} => ~reads[n].flag
        /\ rpc = "returned" => (Len(upstream) = 1 /\ upstream[1].ok)
        /\ callNo > 0 => rpc \in {"calling", "returned", "thrown"}

\* With the cache disabled a value was set and then not found, and the
\* client's call that followed went upstream.
C19_Witness ==
    /\ ~enabled /\ Len(reads) = 2
    /\ reads[1].op = "set" /\ reads[2].op = "get" /\ reads[2].key = reads[1].key
    /\ callNo = 1 /\ rpc = "returned"

(***************************************************************************)
(* C17.  Memoization: a call of the client's cached method does not go     *)
(* upstream while the enabled cache holds, within its time-to-live, the    *)
(* result an earlier call stored for the same logical parameters.          *)
(***************************************************************************)
C17_Memoization ==
    (enabled /\ rpc = "calling") =>
        ~\E obj \in ParamSet :
            LET key == createKey(T_places_search_text, obj)
            IN  /\ SameLogical(obj, params)
                /\ key \in DOMAIN cache
                /\ ~IsStale(cache, key, ttlMs, now)

(***************************************************************************)
(* C20.  A request handler that has not resolved stalls only its own       *)
(* Request: every frame delivered so far has been extracted and dispatched *)
(* whatever handlers are pending, a Request of an unregistered method is   *)
(* answered although earlier Requests wait, and a Request whose handler    *)
(* settled is answered although the handlers of earlier Requests have not, *)
(* so that Responses may be written in another order than the Requests     *)
(* arrived.                                                                *)
(***************************************************************************)
C20_StallIsLocal ==
    /\ log = processBuffer(SubSeq(stream, 1, pos)).events
    /\ \A i \in RequestIdx : ~Registered(i) => ResponsesFor(i) # {}
    /\ \A i \in RequestIdx : Settled(i) => ResponsesFor(i) # {}

\* The handler of an earlier Request is still pending when the Response of
\* a later Request, dispatched behind it, has been written.
C20_Witness ==
    \E i, k \in RequestIdx :
        /\ i < k
        /\ Registered(i) /\ Registered(k)
        /\ i \in pending
        /\ ResponsesFor(k) # {}

\* The invocations of the model and what the state keeps of them.
Invocations == 1..callNo
StagesOf(n) == SelectSeq(steps, LAMBDA st : st.call = n)
Refused(n) ==
    \E i \in 1..Len(steps) :
        steps[i].call = n /\ steps[i].stage = "rate-limit" /\ ~steps[i].ok
WaitOf(n) ==
    steps[CHOOSE i \in 1..Len(steps) : steps[i].call = n /\ steps[i].stage = "rate-limit"].wait
Answered(n) == \E j \in 1..Len(stdout) : stdout[j].by = n
ResponseTo(n) == Written(CHOOSE j \in 1..Len(stdout) : stdout[j].by = n)
Contains(text, part) == \E at \in 1..Len(text) : StartsWithAt(text, at, part)

(***************************************************************************)
(* C11.  A call_tool Request the rate limiter refused is not retried and   *)
(* is answered at once, nothing of the tool handler having run, with a     *)
(* server-error Response: error.code is -32000, error.data.code is         *)
(* RATE_LIMIT_ERROR, and the Response carries the wait in milliseconds     *)
(* that the limiter computed.                                              *)
(***************************************************************************)
C11_RateLimitResponse ==
    \A n \in Invocations : Refused(n) =>
        /\ Answered(n)
        /\ Len(StagesOf(n)) = 2
        /\ LET error == Get(ResponseTo(n), K_error)
           IN  /\ Get(error, K_code) = IntVal(-32000)
               /\ HasKey(error, K_data)
               /\ Get(Get(error, K_data), K_code) = Str(T_RATE_LIMIT_ERROR)
               /\ \/ Contains(Get(error, K_message).s, NumberToText(WaitOf(n)))
                  \/ Contains(stringify(Get(error, K_data)), NumberToText(WaitOf(n)))

\* The stages of the request-shaping pipeline among those of invocation n.
PipelineStages == {"validate", "cache-lookup", "rate-limit", "retry", "upstream", "cache-store"}
PipelineOf(n) == SelectSeq(StagesOf(n), LAMBDA st : st.stage \in PipelineStages)
Increasing(stages, rank) ==
    \A i, j \in 1..Len(stages) : i < j => rank[stages[i].stage] < rank[stages[j].stage]
Passed(n, stage) ==
    \E i \in 1..Len(steps) : steps[i].call = n /\ steps[i].stage = stage /\ steps[i].ok
Failed(n, stage) ==
    \E i \in 1..Len(steps) : steps[i].call = n /\ steps[i].stage = stage /\ ~steps[i].ok
RateLimitStages == SelectSeq(steps, LAMBDA st : st.stage = "rate-limit")

\* The order the specification gives and the order of handleCallTool.
StatedRank ==
    [stage \in PipelineStages |->
        CASE stage = "validate" -> 1 [] stage = "cache-lookup" -> 2
          [] stage = "rate-limit" -> 3 [] stage = "retry" -> 4
          [] stage = "upstream" -> 5 [] stage = "cache-store" -> 6]
ActualRank ==
    [stage \in PipelineStages |->
        CASE stage = "rate-limit" -> 1 [] stage = "validate" -> 2
          [] stage = "cache-lookup" -> 3 [] stage = "retry" -> 4
          [] stage = "upstream" -> 5 [] stage = "cache-store" -> 6]

C23_BoundedAttempts ==
    /\ Len(upstream) <= options.maxAttempts
    /\ Len(delays) <= Len(upstream)
    /\ \A k \in 1..Len(upstream) :
        /\ upstream[k].ok =>
            /\ k = Len(upstream)
            /\ rpc = "returned"
            /\ settled.ok /\ settled.value = ResponseData(params)
            /\ Len(delays) = k - 1
        /\ (~upstream[k].ok /\ ~ShouldRetry(options, upstream[k].error)) =>
            /\ k = Len(upstream)
            /\ rpc = "thrown"
            /\ settled.error = upstream[k].error
            /\ Len(delays) = k - 1

\* The second attempt failed with a failure retryCondition rejects, and
\* withRetry threw it although a third attempt was allowed.
C23_Witness ==
    /\ rpc = "thrown"
    /\ options.maxAttempts = 3
    /\ Len(upstream) = 2
    /\ ShouldRetry(options, upstream[1].error)
    /\ ~ShouldRetry(options, upstream[2].error)
    /\ Len(delays) = 1

\* The failed attempt k carried no Retry-After signal.
NoRetryAfter(k) == ~upstream[k].error.hasResponse \/ upstream[k].error.retryAfter = NoHeader
Backoff(k) == Min(options.baseDelay * Pow2(k - 1), options.maxDelay)

(***************************************************************************)
(* C24.  Backoff delay: the delay slept after the failed attempt k that    *)
(* carried no Retry-After signal is d = min(baseDelay * 2^(k-1), maxDelay) *)
(* when jitter is off and lies in [d / 2, d] when jitter is on; so it      *)
(* never exceeds maxDelay, and with jitter off the delays do not decrease  *)
(* with k.                                                                 *)
(***************************************************************************)
C24_BackoffDelay ==
    \A k \in 1..Len(delays) : NoRetryAfter(k) =>
        /\ ~options.jitter => delays[k] = Backoff(k)
        /\ options.jitter => 2 * delays[k] >= Backoff(k) /\ delays[k] <= Backoff(k)
        /\ delays[k] <= options.maxDelay
        /\ (~options.jitter /\ k > 1 /\ NoRetryAfter(k - 1)) => delays[k - 1] <= delays[k]

\* The second delay was cut to a maxDelay of 1.5 s and then reduced by the
\* jitter.
C24_Witness ==
    /\ Len(delays) = 2
    /\ NoRetryAfter(1) /\ NoRetryAfter(2)
    /\ options.jitter
    /\ options.maxDelay = 1500
    /\ delays[2] < 1500
    /\ delays[2] > 750

(***************************************************************************)
(* C25.  In every reachable state of a TokenBucket, after any calls of     *)
(* consume(n) with n >= 1, getAvailableTokens and getWaitTime with any     *)
(* readings of the clock between them, tokens is within [0, capacity],     *)
(* and a consume that fails deducts nothing.                               *)
(***************************************************************************)
C25_TokensBounded ==
    /\ buckets[BucketKey].tokens >= 0
    /\ buckets[BucketKey].tokens <= capacity * Milli
    /\ \A i \in 1..Len(checks) :
        (checks[i].op = "consume" /\ ~checks[i].ok) => checks[i].after = checks[i].before

\* The frames a text consists of, as a client counts them: a header and as
\* many characters as make the Content-Length bytes it announces.  Each
\* frame comes with its payload and the number of characters of the whole
\* text up to its end; ok says that the text is frames and nothing else.
RECURSIVE FramesWritten(_, _)
FramesWritten(text, offset) ==
    IF text = <<>> THEN [ok |-> TRUE, frames |-> <<>>]
    ELSE LET m == contentLengthMatch(text)
         IN  IF ~m.matched THEN [ok |-> FALSE, frames |-> <<>>]
             ELSE LET body == SliceFrom(text, m.length)
                      lens == {q \in 0..Len(body) :
                                  byteLength(SubSeq(body, 1, q)) = parseInt(m.digits)}
                  IN  IF lens = {} THEN [ok |-> FALSE, frames |-> <<>>]
                      ELSE LET q == CHOOSE x \in lens : TRUE
                               end == offset + m.length + q
                               rest == FramesWritten(SliceFrom(body, q), end)
                           IN  [ok |-> rest.ok,
                                frames |-> <<[payload |-> SubSeq(body, 1, q), end |-> end]>>
                                           \o rest.frames]

\* The payloads of the frames that the chunks delivered so far contain to
\* their end.
FramesDelivered ==
    LET all == FramesWritten(stream, 0).frames
        whole == SelectSeq(all, LAMBDA f : f.end <= pos)
    IN  [i \in 1..Len(whole) |-> whole[i].payload]

(***************************************************************************)
(* C21.  Multi-frame draining and order: when the input is complete        *)
(* frames, every frame the chunks delivered so far contain to its end has  *)
(* been extracted, and the frames were handled in their order of arrival,  *)
(* before the framer waits for more input; and what the handler of a       *)
(* Notification writes is written before anything of a later frame.        *)
(***************************************************************************)
C21_DrainInOrder ==
    /\ FramesWritten(stream, 0).ok =>
        [i \in 1..Len(log) |-> log[i].messageJson] = FramesDelivered
    /\ \A i \in 1..Len(log) : \A j1, j2 \in 1..Len(stdout) :
        (IsNotification(i) /\ stdout[j1].by = i /\ stdout[j2].by > i) => j1 < j2

(***************************************************************************)
(* C22.  Every Response frame the server writes carries jsonrpc "2.0", an  *)
(* id, and exactly one of result and error, whatever the handler returned  *)
(* (undefined included) and whatever failed.                               *)
(***************************************************************************)
C22_ResponseShape ==
    \A j \in 1..Len(stdout) :
        /\ Written(j).t = "object"
        /\ Get(Written(j), K_jsonrpc) = V_2_0
        /\ HasKey(Written(j), K_id)
        /\ HasKey(Written(j), K_result) # HasKey(Written(j), K_error)

(***************************************************************************)
(* C28.  Processing a Notification, a message object without an id, never  *)
(* writes a frame to stdout: not when its method has no handler, not when  *)
(* the handler returns, not when the handler throws.                       *)
(***************************************************************************)
C28_NotificationSilent ==
    \A i \in 1..Len(log) : IsNotification(i) => ResponsesFor(i) = {}

(***************************************************************************)
(* C27.  End-of-input while Requests whose frames were received in full    *)
(* are still in their handlers: the process exits with code 0 only after   *)
(* the Response of every Request dispatched so far has been written.       *)
(***************************************************************************)
C27_AnsweredBeforeExit ==
    exitCode = 0 => \A i \in RequestIdx : ResponsesFor(i) # {}

\* The contents of the cache: what each key holds, whatever its age.
Contents(entries) == [key \in DOMAIN entries |-> entries[key].value]

\* Every entry holds the upstream's answer to parameters of its key.
EntriesFromUpstream ==
    \A key \in DOMAIN cache :
        \E obj \in ParamSet :
            /\ key = createKey(T_places_search_text, obj)
            /\ cache[key].value = ResponseData(obj)

\* A step that changes the contents is the return of a successful upstream
\* call, and it stores that call's answer under the key of its parameters.
WriteOnlyOnSuccess ==
    Contents(cache') # Contents(cache) =>
        /\ rpc = "calling" /\ rpc' = "returned"
        /\ upstream'[Len(upstream')].ok
        /\ Contents(cache') =
              Contents(With(cache, createKey(T_places_search_text, params),
                            ResponseData(params), now))

(***************************************************************************)
(* C29.  The upstream client writes to the cache only after a successful   *)
(* upstream call: a call that fails leaves the contents of the cache as    *)
(* they were, and every entry is the answer of a successful upstream call  *)
(* for parameters of exactly that key.                                     *)
(***************************************************************************)
C29_CacheAfterSuccess ==
    /\ []EntriesFromUpstream
    /\ [][WriteOnlyOnSuccess]_vars

\* A first call stored its answer; the second, for other parameters,
\* failed, and the cache holds the first answer and nothing else.
C29_Witness ==
    /\ wrapped /\ callNo = 2 /\ rpc = "thrown"
    /\ Cardinality(DOMAIN cache) = 1
    /\ createKey(T_places_search_text, params) \notin DOMAIN cache
    /\ EntriesFromUpstream

\* The keys the rate limiter is asked about for the registered tools.
RegisteredKeys == { T_tool \o name : name \in RegisteredTools }

(***************************************************************************)
(* C30.  The bucket map of the rate limiter holds only keys tool:<name> of *)
(* registered tools: a call_tool that names an unknown tool fails at the   *)
(* lookup, before the rate limiter is asked, creates no bucket and takes   *)
(* no token, so there are never more buckets than registered tools.        *)
(***************************************************************************)
C30_BucketsOfRegisteredTools ==
    /\ DOMAIN buckets \subseteq RegisteredKeys
    /\ Cardinality(DOMAIN buckets) <= Cardinality(RegisteredTools)
    /\ \A c \in 1..Len(checks) : checks[c].key \in RegisteredKeys
    /\ Len(checks) = Len(RateLimitStages)
    /\ \A n \in Invocations :
           Failed(n, "lookup") => (Len(StagesOf(n)) = 1 /\ Answered(n))

\* A registered tool was invoked and has its bucket; the invocation of an
\* unknown tool that followed was answered and left the rate limiter alone.
C30_Witness ==
    /\ callNo = 2 /\ Passed(1, "rate-limit") /\ Failed(2, "lookup")
    /\ Answered(2)
    /\ DOMAIN buckets = RegisteredKeys
    /\ Len(checks) = 1

\* The checks i..j were made without a reading of the clock between them
\* that differs from the first.
SameInstant(i, j) == \A m \in i..j : checks[m].at = checks[i].at

(***************************************************************************)
(* C26.  Refill-then-consume is atomic under the interleaving of the       *)
(* handlers: of the call_tool Requests for one tool dispatched while its   *)
(* bucket holds c whole tokens and no refill time elapses, the first c in  *)
(* frame order pass the rate limiter and the others are refused, whatever  *)
(* invocations are in flight and in whatever order their upstream calls    *)
(* complete.                                                               *)
(***************************************************************************)
C26_AtomicConsume ==
    /\ \A i, j \in 1..Len(checks) :
           (i <= j /\ SameInstant(i, j)) =>
               (checks[j].ok <=> (j - i < checks[i].held \div Milli))
    /\ \A i, j \in 1..Len(checks) : i < j => checks[i].call < checks[j].call
    /\ \A m \in 1..Len(checks) :
           /\ checks[m].ok <=> Passed(checks[m].call, "rate-limit")
           /\ ~checks[m].ok <=> Refused(checks[m].call)
           /\ ~checks[m].ok =>
                  (checks[m].call \notin pending /\ ~Passed(checks[m].call, "upstream")
                                                 /\ ~Failed(checks[m].call, "upstream"))

\* Three Requests for the tool were dispatched at one instant with a bucket
\* of two tokens: the first two passed and the third was refused, and the
\* upstream call of the second completed while that of the first had not.
C26_Witness ==
    /\ capacity = 2 /\ Len(checks) = 3 /\ SameInstant(1, 3)
    /\ checks[1].ok /\ checks[2].ok /\ ~checks[3].ok
    /\ checks[1].call \in pending
    /\ Passed(checks[2].call, "upstream")
    /\ Answered(checks[3].call)

=============================================================================
